---- MODULE Spec2Model ----
(***************************************************************************)
(* A model of joecharamut/msbt-tools: the darc archive codec               *)
(* (lib/new_darc.py), the LibMessageStudio file codec (lib/lms.py), the    *)
(* byte-order helper (lib/byteorder.py), the file-type sniffer             *)
(* (lib/filetype.py), the bundle of a project and its message files        *)
(* (lib/oms.py) and the decompile and recompile commands (main.py).        *)
(*                                                                         *)
(* Byte strings are sequences of integers 0..255 and are built and read    *)
(* byte by byte, the way struct.pack / struct.unpack and io.BytesIO do.    *)
(* Python strings are sequences of code points.  An exception is the       *)
(* record [raised |-> <exception name>].                                   *)
(***************************************************************************)
EXTENDS Integers, Sequences, FiniteSets, TLC

VARIABLES
    g_data,      \* FileType.guess: the argument
    g_result,    \* FileType.guess: "pending", the returned member, or the exception
    ht,          \* a HashTableBlock: [num_slots, labels, byte_order]
    ht_bytes,    \* HashTableBlock.to_bytes(ht): None, the bytes, or the exception
    ht_parsed,   \* HashTableBlock.from_bytes(ht_bytes): None, the block, or the exception
    d_heap,      \* the DarcEntry objects of the archive being built
    d_arc,       \* the Darc object being built: [byte_order, root_entry]
    d_bytes,     \* d_arc.to_bytes(): None, the bytes, or the exception
    d_input,     \* the bytes handed to Darc.from_bytes, None before the call
    d_parsed,    \* Darc.from_bytes(d_input): None, [heap, arc], or the failure
    d_bytes2,    \* to_bytes() of the parsed archive: None, the bytes, or the exception
    m_file,      \* the message file object being built
    m_bytes,     \* m_file.to_bytes(): None, the bytes, or the exception
    m_input,     \* the bytes handed to from_bytes, None before the call
    m_header,    \* what _read_header made of m_input: None, the fields, or the exception
    m_parsed,    \* from_bytes(m_input): None, the file object, or the failure
    m_bytes2,    \* to_bytes() of the parsed file: None, the bytes, or the exception
    o_project,   \* the OMSProject object: [tag_parameters, tags, tag_groups, messages]
    o_call,      \* the last call made on o_project and its arguments, None before any
    o_result,    \* what that call did: None, the return value, or the exception
    o_calls,     \* how many calls were made on o_project
    t_file,      \* the file object a TXT2 body is parsed for: [byte_order, encoding]
    t_data,      \* the one message of the TXT2 body being put together, piece by piece
    t_result,    \* TXT2Block.from_bytes of that body: None, the block, or the failure
    d_result,    \* what the last call on an entry of d_heap did: None, Ok or the exception
    d_calls      \* how many calls were made on entries that were attached before

guessVars == <<g_data, g_result>>

hashVars == <<ht, ht_bytes, ht_parsed>>

darcVars == <<d_heap, d_arc, d_bytes, d_input, d_parsed, d_bytes2>>

lmsVars == <<m_file, m_bytes, m_input, m_header, m_parsed, m_bytes2>>

omsVars == <<o_project, o_call, o_result, o_calls>>

txtVars == <<t_file, t_data, t_result>>

treeVars == <<d_result, d_calls>>

vars == <<g_data, g_result, ht, ht_bytes, ht_parsed,
          d_heap, d_arc, d_bytes, d_input, d_parsed, d_bytes2,
          m_file, m_bytes, m_input, m_header, m_parsed, m_bytes2,
          o_project, o_call, o_result, o_calls,
          t_file, t_data, t_result, d_result, d_calls>>

None == [none |-> TRUE]

(***************************************************************************)
(* Sequences and bytes                                                     *)
(***************************************************************************)
Range(s) == {s[i] : i \in 1..Len(s)}

Min(a, b) == IF a < b THEN a ELSE b

\* Python's data[a:b] on a byte string: positions a..b-1 (0-based), cut to the length
Slice(data, a, b) == SubSeq(data, a + 1, Min(b, Len(data)))

RECURSIVE Concat(_)
Concat(ss) == IF ss = <<>> THEN <<>> ELSE Head(ss) \o Concat(Tail(ss))

Zeros(n) == [i \in 1..n |-> 0]

\* the outcome of a call: a returned value, a raised exception, or a loop that never ends
Ok(v) == [value |-> v]

Raised(e) == [raised |-> e]

Hangs == [hangs |-> TRUE]

IsOk(r) == "value" \in DOMAIN r

IsRaised(r) == "raised" \in DOMAIN r

(***************************************************************************)
(* Each specification below runs one part of the program; the variables of *)
(* the other parts then stay at these values.                              *)
(***************************************************************************)
HashIdle ==
    /\ ht = None
    /\ ht_bytes = None
    /\ ht_parsed = None

DarcIdle ==
    /\ d_heap = <<>>
    /\ d_arc = None
    /\ d_bytes = None
    /\ d_input = None
    /\ d_parsed = None
    /\ d_bytes2 = None

GuessIdle ==
    /\ g_data = <<>>
    /\ g_result = "pending"

LmsIdle ==
    /\ m_file = None
    /\ m_bytes = None
    /\ m_input = None
    /\ m_header = None
    /\ m_parsed = None
    /\ m_bytes2 = None

OmsIdle ==
    /\ o_project = None
    /\ o_call = None
    /\ o_result = None
    /\ o_calls = 0

TxtIdle ==
    /\ t_file = None
    /\ t_data = <<>>
    /\ t_result = None

TreeIdle ==
    /\ d_result = None
    /\ d_calls = 0

(***************************************************************************)
(* lib/filetype.py                                                         *)
(***************************************************************************)
MAGIC_DARC == <<100, 97, 114, 99>>                      \* b"darc"
MAGIC_STD  == <<77, 115, 103, 83, 116, 100, 66, 110>>   \* b"MsgStdBn"
MAGIC_PRJ  == <<77, 115, 103, 80, 114, 106, 66, 110>>   \* b"MsgPrjBn"
MAGIC_FLW  == <<77, 115, 103, 70, 108, 119, 66, 110>>   \* b"MsgFlwBn"

\* FileType.guess(data): data[0] is an index (IndexError on b""), the rest are slices
FileTypeGuess(data) ==
    IF Len(data) = 0 THEN "raise IndexError"
    ELSE IF data[1] = 17 THEN "LZ11_FILE"
    ELSE IF Slice(data, 0, 4) = MAGIC_DARC THEN "DARC_FILE"
    ELSE IF Slice(data, 0, 8) = MAGIC_STD THEN "MSBT_FILE"
    ELSE IF Slice(data, 0, 8) = MAGIC_PRJ THEN "MSBP_FILE"
    ELSE IF Slice(data, 0, 8) = MAGIC_FLW THEN "MSBF_FILE"
    ELSE "UNKNOWN_FILE"

\* The byte strings the sniffer is given: every prefix of every magic (the empty
\* string included), alone or followed by up to MaxTail further bytes
MaxTail == 1

TailBytes == {0, 17, 100}

RECURSIVE SeqsUpTo(_, _)
SeqsUpTo(S, n) ==
    IF n = 0 THEN {<<>>}
    ELSE LET shorter == SeqsUpTo(S, n - 1)
         IN shorter \cup {Append(s, x) : s \in {t \in shorter : Len(t) = n - 1}, x \in S}

GuessInputs ==
    {SubSeq(m, 1, Min(k, Len(m))) \o t :
        m \in {MAGIC_DARC, MAGIC_STD, MAGIC_PRJ, MAGIC_FLW, <<17, 100, 97>>},
        k \in 0..8, t \in SeqsUpTo(TailBytes, MaxTail)}

(***************************************************************************)
(* struct.pack / struct.unpack and io.BytesIO                              *)
(***************************************************************************)
LITTLE_ENDIAN == [struct |-> "<", wchar |-> "utf-16-le", bom |-> <<255, 254>>, suffix |-> "le"]
BIG_ENDIAN    == [struct |-> ">", wchar |-> "utf-16-be", bom |-> <<254, 255>>, suffix |-> "be"]

ByteOrders == {LITTLE_ENDIAN, BIG_ENDIAN}

\* from_bom taking any other mark for the little-endian one
FromBomLenient(bom) ==
    IF bom = BIG_ENDIAN.bom THEN Ok(BIG_ENDIAN) ELSE Ok(LITTLE_ENDIAN)

\* ByteOrder.from_bom(bom), without a default
FromBom(bom) ==
    IF bom = <<255, 254>> THEN Ok(LITTLE_ENDIAN)
    ELSE IF bom = <<254, 255>> THEN Ok(BIG_ENDIAN)
    ELSE Raised("ValueError")

Reverse(s) == [i \in 1..Len(s) |-> s[Len(s) + 1 - i]]

\* the n bytes of v, least significant first
RECURSIVE LeBytes(_, _)
LeBytes(v, n) == IF n = 0 THEN <<>> ELSE <<v % 256>> \o LeBytes(v \div 256, n - 1)

\* the value of bytes b, least significant first
RECURSIVE LeValue(_)
LeValue(b) == IF b = <<>> THEN 0 ELSE Head(b) + 256 * LeValue(Tail(b))

\* byte_order.pack("B" | "H" | "I", v)
Pack(order, n, v) == IF order.struct = "<" THEN LeBytes(v, n) ELSE Reverse(LeBytes(v, n))

\* byte_order.unpack("B" | "H" | "I", b), for b of the format's size
Unpack(order, b) == IF order.struct = "<" THEN LeValue(b) ELSE LeValue(Reverse(b))

\* f.read(n) at cursor pos (0-based): what is left of the buffer, at most n bytes
Read(data, pos, n) == Slice(data, pos, pos + n)

\* f.seek(pos); f.write(b) followed by f.getvalue(): overwrites, zero-fills a gap, extends
WriteAt(buf, pos, b) ==
    LET base == IF pos > Len(buf) THEN buf \o Zeros(pos - Len(buf)) ELSE buf
    IN SubSeq(base, 1, pos) \o b \o SubSeq(base, pos + Len(b) + 1, Len(base))

(***************************************************************************)
(* str.encode("utf-8") and bytes.decode("utf-8")                           *)
(***************************************************************************)
\* one code point as its UTF-8 code units
Utf8Char(c) ==
    IF c < 128 THEN <<c>>
    ELSE IF c < 2048 THEN <<192 + (c \div 64), 128 + (c % 64)>>
    ELSE IF c < 65536 THEN <<224 + (c \div 4096), 128 + ((c \div 64) % 64), 128 + (c % 64)>>
    ELSE <<240 + (c \div 262144), 128 + ((c \div 4096) % 64),
           128 + ((c \div 64) % 64), 128 + (c % 64)>>

\* label.encode("utf-8")
Utf8Encode(str) == Concat([i \in 1..Len(str) |-> Utf8Char(str[i])])

(***************************************************************************)
(* lib/lms.py: HashTableBlock                                              *)
(***************************************************************************)
\* val * 0x492 + ord(c), kept as (val mod 2^32) in two 16-bit halves <<hi, lo>>:
\* Python folds over unbounded integers and masks with 0xFFFFFFFF at the end,
\* which is the same value as masking after every step
HashStep(val, c) ==
    LET lo == val[2] * 1170 + c
        hi == val[1] * 1170 + (lo \div 65536)
    IN <<hi % 65536, lo % 65536>>

RECURSIVE HashFold(_, _)
HashFold(val, units) ==
    IF units = <<>> THEN val ELSE HashFold(HashStep(val, Head(units)), Tail(units))

\* (hi * 2^16 + lo) % n
Mod32(val, n) == (((val[1] % n) * (65536 % n)) + val[2]) % n

\* Hash with the characters folded from the last to the first
HashBackwards(label, num_slots) == Mod32(HashFold(<<0, 0>>, Reverse(label)), num_slots)

\* HashTableBlock.hash(label, num_slots): the fold runs over ord(c) of each character
Hash(label, num_slots) == Mod32(HashFold(<<0, 0>>, label), num_slots)

\* dict assignment labels[label] = value on an insertion-ordered dict, kept as a
\* sequence of <<label, value>> pairs: a present key keeps its place
DictPut(d, k, v) ==
    IF \E i \in 1..Len(d) : d[i][1] = k
    THEN [i \in 1..Len(d) |-> IF d[i][1] = k THEN <<k, v>> ELSE d[i]]
    ELSE Append(d, <<k, v>>)

DictKeys(d) == {d[i][1] : i \in 1..Len(d)}

DictGet(d, k) == d[CHOOSE i \in 1..Len(d) : d[i][1] = k][2]

\* the (label, value) pairs that to_bytes appends to slots[x], in dict order
RECURSIVE SlotLabels(_, _, _)
SlotLabels(labels, num_slots, x) ==
    IF labels = <<>> THEN <<>>
    ELSE (IF Hash(Head(labels)[1], num_slots) = x THEN <<Head(labels)>> ELSE <<>>)
         \o SlotLabels(Tail(labels), num_slots, x)

\* one label record: pack("B", len(lbl)), lbl.encode("utf-8"), pack("I", val)
HtRecord(order, lbl, val) == Pack(order, 1, Len(lbl)) \o Utf8Encode(lbl) \o Pack(order, 4, val)

\* one turn of the loop over slots.items() of to_bytes: the records of slot x are
\* appended at the end of the buffer, then the slot's (count, offset) pair is
\* patched into the slot table
HtWriteSlot(t, buf, x) ==
    LET labels == SlotLabels(t.labels, t.num_slots, x)
        pos == Len(buf)
        recs == Concat([i \in 1..Len(labels) |->
                           HtRecord(t.byte_order, labels[i][1], labels[i][2])])
        patch == Pack(t.byte_order, 4, Len(labels)) \o Pack(t.byte_order, 4, pos)
    IN WriteAt(buf \o recs, 4 + x * 8, patch)

\* the turns for slots lo..hi-1 in ascending order.  The range is halved only to keep
\* the evaluation shallow, and the singleton sets make TLC compute the buffer of the
\* first half before the second half runs; the turns run in the loop's order
RECURSIVE HtWriteSlots(_, _, _, _)
HtWriteSlots(t, buf, lo, hi) ==
    IF hi <= lo THEN buf
    ELSE IF hi = lo + 1 THEN HtWriteSlot(t, buf, lo)
    ELSE CHOOSE r \in {HtWriteSlots(t, b, mid, hi) :
                           b \in {HtWriteSlots(t, buf, lo, (lo + hi) \div 2)},
                           mid \in {(lo + hi) \div 2}} : TRUE

\* HashTableBlock.to_bytes(self); pack("B", n) raises struct.error for n > 255
HtToBytes(t) ==
    IF \E i \in 1..Len(t.labels) : Len(t.labels[i][1]) > 255
    THEN Raised("struct.error")
    ELSE Ok(HtWriteSlots(t, Pack(t.byte_order, 4, t.num_slots) \o Zeros(t.num_slots * 8),
                         0, t.num_slots))

\* label_len times read_char(f, "utf-8"): one byte is read and decoded on its own;
\* b"" (end of buffer) decodes to "", a byte >= 0x80 alone raises UnicodeDecodeError
RECURSIVE HtReadLabel(_, _, _, _)
HtReadLabel(data, pos, k, label) ==
    IF k = 0 THEN [label |-> label, pos |-> pos]
    ELSE LET b == Read(data, pos, 1)
         IN IF b = <<>> THEN HtReadLabel(data, pos, k - 1, label)
            ELSE IF b[1] >= 128 THEN Raised("UnicodeDecodeError")
            ELSE HtReadLabel(data, pos + 1, k - 1, Append(label, b[1]))

\* the num_labels records of one slot, read from cursor pos into the dict
RECURSIVE HtReadLabels(_, _, _, _, _)
HtReadLabels(data, order, k, pos, labels) ==
    IF k = 0 THEN Ok(labels)
    ELSE LET lenb == Read(data, pos, 1)
         IN IF Len(lenb) < 1 THEN Raised("struct.error")
            ELSE LET l == HtReadLabel(data, pos + 1, Unpack(order, lenb), <<>>)
                 IN IF IsRaised(l) THEN l
                    ELSE LET item == Read(data, l.pos, 4)
                         IN IF Len(item) < 4 THEN Raised("struct.error")
                            ELSE HtReadLabels(data, order, k - 1, l.pos + 4,
                                              DictPut(labels, l.label, Unpack(order, item)))

\* one turn of the loop over range(num_slots) of from_bytes, with the cursor at
\* st.pos and the dict st.labels: the slot's pair is read, its records are read
\* at labels_offset, and the cursor returns to the slot table
HtReadSlot(data, order, st) ==
    LET hdr == Read(data, st.pos, 8)
    IN IF Len(hdr) < 8 THEN Raised("struct.error")
       ELSE LET num_labels == Unpack(order, SubSeq(hdr, 1, 4))
                labels_offset == Unpack(order, SubSeq(hdr, 5, 8))
                r == IF num_labels /= 0
                     THEN HtReadLabels(data, order, num_labels, labels_offset, st.labels)
                     ELSE Ok(st.labels)
            IN IF IsRaised(r) THEN r
               ELSE [pos |-> st.pos + 8, labels |-> r.value]

\* k turns of the loop, in order, unless one raises (halved and evaluated half by
\* half, as in HtWriteSlots)
RECURSIVE HtReadSlots(_, _, _, _)
HtReadSlots(data, order, st, k) ==
    IF IsRaised(st) \/ k = 0 THEN st
    ELSE IF k = 1 THEN HtReadSlot(data, order, st)
    ELSE CHOOSE r \in {HtReadSlots(data, order, half, rest) :
                           half \in {HtReadSlots(data, order, st, k \div 2)},
                           rest \in {k - (k \div 2)}} : TRUE

\* HashTableBlock.from_bytes(data, lms_file), byte order lms_file.byte_order
HtFromBytes(data, order) ==
    LET b == Read(data, 0, 4)
    IN IF Len(b) < 4 THEN Raised("struct.error")
       ELSE LET n == Unpack(order, b)
                st == HtReadSlots(data, order, [pos |-> 4, labels |-> <<>>], n)
            IN IF IsRaised(st) THEN st
               ELSE Ok([num_slots |-> n, labels |-> st.labels, byte_order |-> order])

(***************************************************************************)
(* lib/lms.py: read_char, read_str, align_buf                              *)
(*                                                                         *)
(* An encoding is one of Python's codec names "utf-8", "utf-16-le",        *)
(* "utf-16-be", "utf-32-le", "utf-32-be"; a string is its code points.     *)
(***************************************************************************)
\* len("A".encode(encoding))
Width(encoding) ==
    IF encoding = "utf-8" THEN 1
    ELSE IF encoding \in {"utf-16-le", "utf-16-be"} THEN 2
    ELSE 4

\* the byte order a wide codec name carries
WideOrder(encoding) ==
    IF encoding \in {"utf-16-le", "utf-32-le"} THEN LITTLE_ENDIAN ELSE BIG_ENDIAN

\* string.encode(encoding), for code points below 0x10000 that are no surrogates
Encode(encoding, str) ==
    IF encoding = "utf-8" THEN Utf8Encode(str)
    ELSE Concat([i \in 1..Len(str) |-> Pack(WideOrder(encoding), Width(encoding), str[i])])

\* b.decode(encoding) for at most one code unit b: b"" decodes to "", a lone UTF-8
\* byte >= 0x80, a cut code unit, a surrogate and a value above 0x10FFFF do not decode
Decode(encoding, b) ==
    IF b = <<>> THEN Ok(<<>>)
    ELSE IF Len(b) < Width(encoding) THEN Raised("UnicodeDecodeError")
    ELSE IF encoding = "utf-8"
         THEN (IF b[1] < 128 THEN Ok(<<b[1]>>) ELSE Raised("UnicodeDecodeError"))
    ELSE LET le == IF WideOrder(encoding) = LITTLE_ENDIAN THEN b ELSE Reverse(b)
         IN IF Width(encoding) = 4 /\ (le[4] /= 0 \/ le[3] > 16)
            THEN Raised("UnicodeDecodeError")
            ELSE IF LeValue(le) \in 55296..57343 THEN Raised("UnicodeDecodeError")
            ELSE Ok(<<LeValue(le)>>)

\* read_char(f, encoding) with the cursor at pos
ReadChar(data, pos, encoding) == Decode(encoding, Read(data, pos, Width(encoding)))

\* read_str(f, encoding) with the cursor at pos: characters up to "\0"; at the end
\* of the buffer read_char returns "" for ever
RECURSIVE ReadStr(_, _, _, _)
ReadStr(data, pos, encoding, s) ==
    LET c == ReadChar(data, pos, encoding)
    IN IF ~IsOk(c) THEN c
       ELSE IF c.value = <<0>> THEN Ok(s)
       ELSE IF c.value = <<>> THEN Hangs
       ELSE ReadStr(data, pos + Width(encoding), encoding, s \o c.value)

AlignBufNever(buf, n, fill) == buf

\* align_buf(f, n, fill) with the cursor at the end of buf
AlignBuf(buf, n, fill) ==
    IF Len(buf) % n > 0 THEN buf \o [i \in 1..(n - (Len(buf) % n)) |-> fill] ELSE buf

(***************************************************************************)
(* struct.pack / struct.unpack with a byte-order prefix (no alignment).    *)
(* A format is the sequence of its codes "B", "H", "I", "i".               *)
(***************************************************************************)
CodeSize(code) == IF code = "B" THEN 1 ELSE IF code = "H" THEN 2 ELSE 4

RECURSIVE CalcSize(_)
CalcSize(fmt) == IF fmt = <<>> THEN 0 ELSE CodeSize(Head(fmt)) + CalcSize(Tail(fmt))

\* the two's complement value of four bytes
UnpackSigned(order, b) ==
    LET le == IF order.struct = "<" THEN b ELSE Reverse(b)
    IN LeValue(SubSeq(le, 1, 3)) + 16777216 * (IF le[4] >= 128 THEN le[4] - 256 ELSE le[4])

RECURSIVE StructPack(_, _, _)
StructPack(order, fmt, vals) ==
    IF fmt = <<>> THEN <<>>
    ELSE Pack(order, CodeSize(Head(fmt)), Head(vals)) \o StructPack(order, Tail(fmt), Tail(vals))

RECURSIVE StructUnpack(_, _, _)
StructUnpack(order, fmt, b) ==
    IF fmt = <<>> THEN <<>>
    ELSE <<IF Head(fmt) = "i" THEN UnpackSigned(order, SubSeq(b, 1, 4))
           ELSE Unpack(order, SubSeq(b, 1, CodeSize(Head(fmt))))>>
         \o StructUnpack(order, Tail(fmt), SubSeq(b, CodeSize(Head(fmt)) + 1, Len(b)))

\* the outcome of a loop whose turns do not depend on each other: the values of all
\* turns, or the failure of the first turn that fails
Collect(turns) ==
    IF \A i \in 1..Len(turns) : IsOk(turns[i])
    THEN Ok([i \in 1..Len(turns) |-> turns[i].value])
    ELSE turns[CHOOSE i \in 1..Len(turns) :
                   ~IsOk(turns[i]) /\ \A j \in 1..(i - 1) : IsOk(turns[j])]

\* how many turns a loop over "count" table entries of "size" bytes from "start" can
\* begin before a read comes back short: the entries that fit, and one more
Turns(data, start, size, count) ==
    IF Len(data) < start THEN Min(count, 1)
    ELSE Min(count, ((Len(data) - start) \div size) + 1)

\* byte_order.unpack("I", f.read(4)) with the cursor at pos
ReadU32(data, order, pos) ==
    IF Len(Read(data, pos, 4)) < 4 THEN Raised("struct.error")
    ELSE Ok(Unpack(order, Read(data, pos, 4)))

\* byte_order.unpack("H", f.read(2)) with the cursor at pos
ReadU16(data, order, pos) ==
    IF Len(Read(data, pos, 2)) < 2 THEN Raised("struct.error")
    ELSE Ok(Unpack(order, Read(data, pos, 2)))

\* byte_order.unpack("H 2x", f.read(4)) with the cursor at pos
ReadU16Pad(data, order, pos) ==
    IF Len(Read(data, pos, 4)) < 4 THEN Raised("struct.error")
    ELSE Ok(Unpack(order, Read(data, pos, 2)))

\* the loop "for _ in range(n): i, = unpack('H', f.read(2))" with the cursor at pos
ReadU16List(data, order, pos, n) ==
    Collect([k \in 1..Turns(data, pos, 2, n) |-> ReadU16(data, order, pos + 2 * (k - 1))])

(***************************************************************************)
(* lib/lms.py: UnknownBlock                                                *)
(***************************************************************************)
UnknownFromBytes(data, lms_file) == Ok([data |-> data])

UnknownToBytes(blk) == blk.data

(***************************************************************************)
(* lib/lms.py: CLR1Block, ATI2Block, SYL3Block (count, then fixed records) *)
(***************************************************************************)
COLOR_STRUCT == <<"B", "B", "B", "B">>

ATTR_STRUCT == <<"B", "B", "H", "I">>

STYLE_STRUCT == <<"I", "I", "i", "i">>

\* num, = unpack("I", f.read(4)); for _ in range(num): unpack(fmt, f.read(size))
RecordsFromBytes(data, order, fmt) ==
    LET num == ReadU32(data, order, 0)
    IN IF ~IsOk(num) THEN num
       ELSE Collect([k \in 1..Turns(data, 4, CalcSize(fmt), num.value) |->
                LET b == Read(data, 4 + CalcSize(fmt) * (k - 1), CalcSize(fmt))
                IN IF Len(b) < CalcSize(fmt) THEN Raised("struct.error")
                   ELSE Ok(StructUnpack(order, fmt, b))])

\* pack("I", len(records)), then every record packed
RecordsToBytes(order, fmt, records) ==
    Pack(order, 4, Len(records))
    \o Concat([k \in 1..Len(records) |-> StructPack(order, fmt, records[k])])

CLR1FromBytes(data, lms_file) ==
    LET r == RecordsFromBytes(data, lms_file.byte_order, COLOR_STRUCT)
    IN IF ~IsOk(r) THEN r
       ELSE Ok([colors |-> r.value, byte_order |-> lms_file.byte_order])

CLR1ToBytes(blk) == RecordsToBytes(blk.byte_order, COLOR_STRUCT, blk.colors)

ATI2FromBytes(data, lms_file) ==
    LET r == RecordsFromBytes(data, lms_file.byte_order, ATTR_STRUCT)
    IN IF ~IsOk(r) THEN r
       ELSE Ok([attributes |-> r.value, byte_order |-> lms_file.byte_order])

ATI2ToBytes(blk) == RecordsToBytes(blk.byte_order, ATTR_STRUCT, blk.attributes)

SYL3FromBytes(data, lms_file) ==
    LET r == RecordsFromBytes(data, lms_file.byte_order, STYLE_STRUCT)
    IN IF ~IsOk(r) THEN r
       ELSE Ok([styles |-> r.value, byte_order |-> lms_file.byte_order])

SYL3ToBytes(blk) == RecordsToBytes(blk.byte_order, STYLE_STRUCT, blk.styles)

(***************************************************************************)
(* lib/lms.py: ALI2Block                                                   *)
(***************************************************************************)
\* one turn of the outer loop of from_bytes: the list whose offset is entry i
ALI2ReadList(data, order, encoding, i) ==
    LET offset == ReadU32(data, order, 4 + 4 * (i - 1))
    IN IF ~IsOk(offset) THEN offset
       ELSE LET list_base == offset.value
                list_items == ReadU32(data, order, list_base)
            IN IF ~IsOk(list_items) THEN list_items
               ELSE Collect([j \in 1..Turns(data, list_base + 4, 4, list_items.value) |->
                        LET name_offset == ReadU32(data, order, list_base + 4 + 4 * (j - 1))
                        IN IF ~IsOk(name_offset) THEN name_offset
                           ELSE ReadStr(data, list_base + name_offset.value, encoding, <<>>)])

ALI2FromBytes(data, lms_file) ==
    LET num_lists == ReadU32(data, lms_file.byte_order, 0)
    IN IF ~IsOk(num_lists) THEN num_lists
       ELSE LET lists == Collect([i \in 1..Turns(data, 4, 4, num_lists.value) |->
                             ALI2ReadList(data, lms_file.byte_order, lms_file.encoding, i)])
            IN IF ~IsOk(lists) THEN lists
               ELSE Ok([lists |-> lists.value, byte_order |-> lms_file.byte_order,
                        encoding |-> lms_file.encoding])

\* the inner loop of to_bytes from string k on: the string and one 00 byte are
\* appended, its offset from list_base is patched into entry k of the list
RECURSIVE ALI2WriteStrings(_, _, _, _, _)
ALI2WriteStrings(blk, buf, list_base, l, k) ==
    IF k > Len(l) THEN buf
    ELSE ALI2WriteStrings(blk,
             WriteAt(buf \o Encode(blk.encoding, l[k]) \o <<0>>, list_base + 4 * k,
                     Pack(blk.byte_order, 4, Len(buf) - list_base)),
             list_base, l, k + 1)

\* one turn of the outer loop of to_bytes, for list number list_idx (0-based)
ALI2WriteList(blk, buf, list_idx) ==
    LET l == blk.lists[list_idx + 1]
        list_pos == Len(buf)
        head == WriteAt(buf, 4 * (list_idx + 1), Pack(blk.byte_order, 4, list_pos))
                \o Pack(blk.byte_order, 4, Len(l)) \o Zeros(4 * Len(l))
    IN AlignBuf(ALI2WriteStrings(blk, head, list_pos, l, 1), 4, 0)

RECURSIVE ALI2WriteLists(_, _, _)
ALI2WriteLists(blk, buf, list_idx) ==
    IF list_idx >= Len(blk.lists) THEN buf
    ELSE ALI2WriteLists(blk, ALI2WriteList(blk, buf, list_idx), list_idx + 1)

ALI2ToBytes(blk) ==
    ALI2WriteLists(blk, Pack(blk.byte_order, 4, Len(blk.lists)) \o Zeros(4 * Len(blk.lists)), 0)

(***************************************************************************)
(* lib/lms.py: TGG2Block and TAG2Block (the two classes have the same      *)
(* code; an entry is <<name, indexes>>)                                    *)
(***************************************************************************)
\* one turn of the loop of from_bytes: the entry whose offset is table entry i
TGG2ReadGroup(data, order, encoding, i) ==
    LET offset == ReadU32(data, order, 4 + 4 * (i - 1))
    IN IF ~IsOk(offset) THEN offset
       ELSE LET num_tags == ReadU16(data, order, offset.value)
            IN IF ~IsOk(num_tags) THEN num_tags
               ELSE LET tag_indexes == ReadU16List(data, order, offset.value + 2, num_tags.value)
                        name == ReadStr(data, offset.value + 2 + 2 * num_tags.value, encoding, <<>>)
                    IN IF ~IsOk(tag_indexes) THEN tag_indexes
                       ELSE IF ~IsOk(name) THEN name
                       ELSE Ok(<<name.value, tag_indexes.value>>)

\* the entries of TGG2Block.from_bytes / TAG2Block.from_bytes
TGG2ReadGroups(data, lms_file) ==
    LET num_groups == ReadU16Pad(data, lms_file.byte_order, 0)
    IN IF ~IsOk(num_groups) THEN num_groups
       ELSE Collect([i \in 1..Turns(data, 4, 4, num_groups.value) |->
                TGG2ReadGroup(data, lms_file.byte_order, lms_file.encoding, i)])

\* one turn of the loop of to_bytes, for entry number i (0-based)
TGG2WriteGroup(order, encoding, buf, i, entry) ==
    AlignBuf(WriteAt(buf, 4 * (i + 1), Pack(order, 4, Len(buf)))
             \o Pack(order, 2, Len(entry[2]))
             \o Concat([x \in 1..Len(entry[2]) |-> Pack(order, 2, entry[2][x])])
             \o Encode(encoding, entry[1]) \o <<0>>,
             4, 0)

RECURSIVE TGG2WriteGroups(_, _, _, _, _)
TGG2WriteGroups(order, encoding, buf, i, entries) ==
    IF i >= Len(entries) THEN buf
    ELSE TGG2WriteGroups(order, encoding,
                         TGG2WriteGroup(order, encoding, buf, i, entries[i + 1]),
                         i + 1, entries)

\* pack("H 2x", len(entries)), the offset table, the entries
TGG2WriteAll(order, encoding, entries) ==
    TGG2WriteGroups(order, encoding,
                    Pack(order, 2, Len(entries)) \o <<0, 0>> \o Zeros(4 * Len(entries)),
                    0, entries)

TGG2FromBytes(data, lms_file) ==
    LET r == TGG2ReadGroups(data, lms_file)
    IN IF ~IsOk(r) THEN r
       ELSE Ok([groups |-> r.value, byte_order |-> lms_file.byte_order,
                encoding |-> lms_file.encoding])

TGG2ToBytes(blk) == TGG2WriteAll(blk.byte_order, blk.encoding, blk.groups)

TAG2FromBytes(data, lms_file) ==
    LET r == TGG2ReadGroups(data, lms_file)
    IN IF ~IsOk(r) THEN r
       ELSE Ok([tags |-> r.value, byte_order |-> lms_file.byte_order,
                encoding |-> lms_file.encoding])

TAG2ToBytes(blk) == TGG2WriteAll(blk.byte_order, blk.encoding, blk.tags)

(***************************************************************************)
(* lib/lms.py: TGP2Block (a parameter is <<name, param_type, items>>)      *)
(***************************************************************************)
ENUM_TYPE == 9

\* one turn of the loop of from_bytes: the parameter whose offset is table entry i
TGP2ReadParam(data, order, encoding, i) ==
    LET offset == ReadU32(data, order, 4 + 4 * (i - 1))
    IN IF ~IsOk(offset) THEN offset
       ELSE IF Len(Read(data, offset.value, 1)) < 1 THEN Raised("struct.error")
       ELSE LET param_type == Read(data, offset.value, 1)[1]
            IN IF param_type /= ENUM_TYPE
               THEN LET name == ReadStr(data, offset.value + 1, encoding, <<>>)
                    IN IF ~IsOk(name) THEN name ELSE Ok(<<name.value, param_type, <<>>>>)
               ELSE IF Len(Read(data, offset.value + 1, 3)) < 3 THEN Raised("struct.error")
               ELSE LET num_items == Unpack(order, Read(data, offset.value + 2, 2))
                        items == ReadU16List(data, order, offset.value + 4, num_items)
                        name == ReadStr(data, offset.value + 4 + 2 * num_items, encoding, <<>>)
                    IN IF ~IsOk(items) THEN items
                       ELSE IF ~IsOk(name) THEN name
                       ELSE Ok(<<name.value, param_type, items.value>>)

TGP2FromBytes(data, lms_file) ==
    LET num_params == ReadU16Pad(data, lms_file.byte_order, 0)
    IN IF ~IsOk(num_params) THEN num_params
       ELSE LET params == Collect([i \in 1..Turns(data, 4, 4, num_params.value) |->
                              TGP2ReadParam(data, lms_file.byte_order, lms_file.encoding, i)])
            IN IF ~IsOk(params) THEN params
               ELSE Ok([parameters |-> params.value, byte_order |-> lms_file.byte_order,
                        encoding |-> lms_file.encoding])

\* one turn of the loop of to_bytes, for parameter number i (0-based)
TGP2WriteParam(blk, buf, i) ==
    LET name == blk.parameters[i + 1][1]
        param_type == blk.parameters[i + 1][2]
        items == blk.parameters[i + 1][3]
        head == WriteAt(buf, 4 * (i + 1), Pack(blk.byte_order, 4, Len(buf)))
                \o Pack(blk.byte_order, 1, param_type)
    IN AlignBuf(IF param_type /= ENUM_TYPE
                THEN head \o Encode(blk.encoding, name) \o <<0>>
                ELSE head \o <<0>> \o Pack(blk.byte_order, 2, Len(items))
                     \o Concat([x \in 1..Len(items) |-> Pack(blk.byte_order, 2, items[x])])
                     \o Encode(blk.encoding, name) \o <<0>>,
                4, 0)

RECURSIVE TGP2WriteParams(_, _, _)
TGP2WriteParams(blk, buf, i) ==
    IF i >= Len(blk.parameters) THEN buf
    ELSE TGP2WriteParams(blk, TGP2WriteParam(blk, buf, i), i + 1)

TGP2ToBytes(blk) ==
    TGP2WriteParams(blk, Pack(blk.byte_order, 2, Len(blk.parameters)) \o <<0, 0>>
                         \o Zeros(4 * Len(blk.parameters)), 0)

(***************************************************************************)
(* lib/lms.py: TGL2Block and CTI1Block (a count, an offset table, strings) *)
(***************************************************************************)
\* the loop of from_bytes over the offset table: the string at each offset
ReadNames(data, order, encoding, count) ==
    Collect([i \in 1..Turns(data, 4, 4, count) |->
        LET offset == ReadU32(data, order, 4 + 4 * (i - 1))
        IN IF ~IsOk(offset) THEN offset
           ELSE ReadStr(data, offset.value, encoding, <<>>)])

\* the loop of to_bytes from name i (0-based) on: the name's position is patched
\* into table entry i, the name and one 00 byte are appended
RECURSIVE WriteNames(_, _, _, _, _)
WriteNames(order, encoding, buf, names, i) ==
    IF i >= Len(names) THEN buf
    ELSE WriteNames(order, encoding,
                    WriteAt(buf, 4 + 4 * i, Pack(order, 4, Len(buf)))
                    \o Encode(encoding, names[i + 1]) \o <<0>>,
                    names, i + 1)

TGL2FromBytes(data, lms_file) ==
    LET items == ReadU16Pad(data, lms_file.byte_order, 0)
    IN IF ~IsOk(items) THEN items
       ELSE LET names == ReadNames(data, lms_file.byte_order, lms_file.encoding, items.value)
            IN IF ~IsOk(names) THEN names
               ELSE Ok([names |-> names.value, byte_order |-> lms_file.byte_order,
                        encoding |-> lms_file.encoding])

TGL2ToBytes(blk) ==
    WriteNames(blk.byte_order, blk.encoding,
               Pack(blk.byte_order, 2, Len(blk.names)) \o <<0, 0>> \o Zeros(4 * Len(blk.names)),
               blk.names, 0)

CTI1FromBytes(data, lms_file) ==
    LET num_filenames == ReadU32(data, lms_file.byte_order, 0)
    IN IF ~IsOk(num_filenames) THEN num_filenames
       ELSE LET names == ReadNames(data, lms_file.byte_order, lms_file.encoding,
                                   num_filenames.value)
            IN IF ~IsOk(names) THEN names
               ELSE Ok([filenames |-> names.value, byte_order |-> lms_file.byte_order,
                        encoding |-> lms_file.encoding])

CTI1ToBytes(blk) ==
    WriteNames(blk.byte_order, blk.encoding,
               Pack(blk.byte_order, 4, Len(blk.filenames)) \o Zeros(4 * Len(blk.filenames)),
               blk.filenames, 0)

(***************************************************************************)
(* lib/lms.py: TXT2Block (a message is <<msg, tags>>, a tag is             *)
(* <<tag_group, tag_type, param_data>>)                                    *)
(***************************************************************************)
PLACEHOLDER == 65532     \* U+FFFC, the character put where a tag stood

TAG_MARK == 14           \* "\x0E"

BUTTON_BYTE == 224       \* 0xE0

RECURSIVE Without(_, _)
Without(b, x) ==
    IF b = <<>> THEN <<>>
    ELSE (IF Head(b) = x THEN <<>> ELSE <<Head(b)>>) \o Without(Tail(b), x)

\* the while loop of from_bytes with the cursor at pos
RECURSIVE TXT2ReadMessage(_, _, _, _, _, _)
TXT2ReadMessage(data, order, encoding, pos, msg, tags) ==
    LET width == Width(encoding)
        char_bytes == Read(data, pos, width)
        ch == Decode(encoding, char_bytes)
        head == Read(data, pos + width, 6)
        param_size == Unpack(order, SubSeq(head, 5, 6))
        param_data == Read(data, pos + width + 6, param_size)
    IN IF ~IsOk(ch) THEN ch
       ELSE IF ch.value = <<0>> THEN Ok(<<msg, tags>>)
       ELSE IF ch.value = <<TAG_MARK>>
            THEN IF Len(head) < 6 THEN Raised("struct.error")
                 ELSE TXT2ReadMessage(data, order, encoding,
                          pos + width + 6 + Len(param_data),
                          Append(msg, PLACEHOLDER),
                          Append(tags, <<Unpack(order, SubSeq(head, 1, 2)),
                                         Unpack(order, SubSeq(head, 3, 4)), param_data>>))
       ELSE IF BUTTON_BYTE \in Range(char_bytes)
            THEN TXT2ReadMessage(data, order, encoding, pos + width,
                                 Append(msg, PLACEHOLDER),
                                 Append(tags, <<-1, -1, Without(char_bytes, BUTTON_BYTE)>>))
       ELSE IF ch.value = <<>> THEN Hangs
       ELSE TXT2ReadMessage(data, order, encoding, pos + width, msg \o ch.value, tags)

TXT2FromBytes(data, lms_file) ==
    LET num_messages == ReadU32(data, lms_file.byte_order, 0)
    IN IF ~IsOk(num_messages) THEN num_messages
       ELSE LET messages == Collect([i \in 1..Turns(data, 4, 4, num_messages.value) |->
                    LET offset == ReadU32(data, lms_file.byte_order, 4 + 4 * (i - 1))
                    IN IF ~IsOk(offset) THEN offset
                       ELSE TXT2ReadMessage(data, lms_file.byte_order, lms_file.encoding,
                                            offset.value, <<>>, <<>>)])
            IN IF ~IsOk(messages) THEN messages
               ELSE Ok([messages |-> messages.value, byte_order |-> lms_file.byte_order,
                        encoding |-> lms_file.encoding])

\* TXT2Block.to_bytes
TXT2ToBytes(blk) == Raised("NotImplementedError")

(***************************************************************************)
(* Dispatch on the class of a block: every class has a field of its own    *)
(***************************************************************************)
\* block.to_bytes()
BlockToBytes(blk) ==
    IF "data" \in DOMAIN blk THEN Ok(UnknownToBytes(blk))
    ELSE IF "num_slots" \in DOMAIN blk THEN HtToBytes(blk)
    ELSE IF "colors" \in DOMAIN blk THEN Ok(CLR1ToBytes(blk))
    ELSE IF "attributes" \in DOMAIN blk THEN Ok(ATI2ToBytes(blk))
    ELSE IF "lists" \in DOMAIN blk THEN Ok(ALI2ToBytes(blk))
    ELSE IF "groups" \in DOMAIN blk THEN Ok(TGG2ToBytes(blk))
    ELSE IF "tags" \in DOMAIN blk THEN Ok(TAG2ToBytes(blk))
    ELSE IF "parameters" \in DOMAIN blk THEN Ok(TGP2ToBytes(blk))
    ELSE IF "names" \in DOMAIN blk THEN Ok(TGL2ToBytes(blk))
    ELSE IF "styles" \in DOMAIN blk THEN Ok(SYL3ToBytes(blk))
    ELSE IF "filenames" \in DOMAIN blk THEN Ok(CTI1ToBytes(blk))
    ELSE TXT2ToBytes(blk)

\* types[block_type].from_bytes(data, lms_file), for the class named cls
BlockFromBytes(cls, data, lms_file) ==
    IF cls = "UnknownBlock" THEN UnknownFromBytes(data, lms_file)
    ELSE IF cls = "HashTableBlock" THEN HtFromBytes(data, lms_file.byte_order)
    ELSE IF cls = "CLR1Block" THEN CLR1FromBytes(data, lms_file)
    ELSE IF cls = "ATI2Block" THEN ATI2FromBytes(data, lms_file)
    ELSE IF cls = "ALI2Block" THEN ALI2FromBytes(data, lms_file)
    ELSE IF cls = "TGG2Block" THEN TGG2FromBytes(data, lms_file)
    ELSE IF cls = "TAG2Block" THEN TAG2FromBytes(data, lms_file)
    ELSE IF cls = "TGP2Block" THEN TGP2FromBytes(data, lms_file)
    ELSE IF cls = "TGL2Block" THEN TGL2FromBytes(data, lms_file)
    ELSE IF cls = "SYL3Block" THEN SYL3FromBytes(data, lms_file)
    ELSE IF cls = "CTI1Block" THEN CTI1FromBytes(data, lms_file)
    ELSE TXT2FromBytes(data, lms_file)

(***************************************************************************)
(* lib/lms.py: LMSFile, LMSProjectFile, LMSStandardFile, LMSFlowFile       *)
(*                                                                         *)
(* A file object is [cls, magic, byte_order, encoding, raw_blocks, blocks];*)
(* raw_blocks and blocks are insertion-ordered dicts keyed by the tag, a   *)
(* tag is its four ASCII bytes.                                            *)
(***************************************************************************)
LMS_VERSION == 3

TAG_CLR1 == <<67, 76, 82, 49>>

TAG_CLB1 == <<67, 76, 66, 49>>

TAG_ATI2 == <<65, 84, 73, 50>>

TAG_ALB1 == <<65, 76, 66, 49>>

TAG_ALI2 == <<65, 76, 73, 50>>

TAG_TGG2 == <<84, 71, 71, 50>>

TAG_TAG2 == <<84, 65, 71, 50>>

TAG_TGP2 == <<84, 71, 80, 50>>

TAG_TGL2 == <<84, 71, 76, 50>>

TAG_SYL3 == <<83, 89, 76, 51>>

TAG_SLB1 == <<83, 76, 66, 49>>

TAG_CTI1 == <<67, 84, 73, 49>>

TAG_LBL1 == <<76, 66, 76, 49>>

TAG_ATR1 == <<65, 84, 82, 49>>

TAG_TXT2 == <<84, 88, 84, 50>>

TAG_FLW3 == <<70, 76, 87, 51>>

TAG_FEN1 == <<70, 69, 78, 49>>

FileClasses == {"LMSProjectFile", "LMSStandardFile", "LMSFlowFile"}

\* cls.MAGIC
Magic(cls) ==
    IF cls = "LMSProjectFile" THEN MAGIC_PRJ
    ELSE IF cls = "LMSStandardFile" THEN MAGIC_STD
    ELSE MAGIC_FLW

\* cls.SECTIONS: the tag table of a file class, as a dict from tag to block class
Sections(cls) ==
    IF cls = "LMSProjectFile"
    THEN << <<TAG_CLR1, "CLR1Block">>, <<TAG_CLB1, "HashTableBlock">>,
            <<TAG_ATI2, "ATI2Block">>, <<TAG_ALB1, "HashTableBlock">>,
            <<TAG_ALI2, "ALI2Block">>, <<TAG_TGG2, "TGG2Block">>,
            <<TAG_TAG2, "TAG2Block">>, <<TAG_TGP2, "TGP2Block">>,
            <<TAG_TGL2, "TGL2Block">>, <<TAG_SYL3, "SYL3Block">>,
            <<TAG_SLB1, "HashTableBlock">>, <<TAG_CTI1, "CTI1Block">> >>
    ELSE IF cls = "LMSStandardFile"
    THEN << <<TAG_LBL1, "HashTableBlock">>, <<TAG_ATR1, "UnknownBlock">>,
            <<TAG_TXT2, "TXT2Block">> >>
    ELSE << <<TAG_FLW3, "UnknownBlock">>, <<TAG_FEN1, "HashTableBlock">> >>

\* cls(): LMSFile.__init__
LMSFile(cls) ==
    [cls |-> cls, magic |-> <<>>, byte_order |-> LITTLE_ENDIAN, encoding |-> "utf-8",
     raw_blocks |-> <<>>, blocks |-> <<>>]

ReadBlockWithPadding(data, order, st) ==
    LET head == Read(data, st.pos, 16)
        block_type == SubSeq(head, 1, 4)
        block_size == Unpack(order, SubSeq(head, 5, 8))
        padded == IF block_size % 16 > 0 THEN block_size + (16 - (block_size % 16))
                  ELSE block_size
        block_data == Read(data, st.pos + 16, padded)
    IN IF Len(head) < 16 THEN Raised("struct.error")
       ELSE IF \E i \in 1..4 : block_type[i] >= 128 THEN Raised("UnicodeDecodeError")
       ELSE [pos    |-> st.pos + 16 + Len(block_data),
             blocks |-> DictPut(st.blocks, block_type, block_data)]

\* one turn of the while loop of _read_header on st = [pos, blocks]: a 16-byte block
\* header, block_size bytes of data (as many as are left), the cursor moved to the
\* next multiple of 16
ReadBlock(data, order, st) ==
    LET head == Read(data, st.pos, 16)
        block_type == SubSeq(head, 1, 4)
        block_size == Unpack(order, SubSeq(head, 5, 8))
        block_data == Read(data, st.pos + 16, block_size)
        end == st.pos + 16 + Len(block_data)
    IN IF Len(head) < 16 THEN Raised("struct.error")
       ELSE IF \E i \in 1..4 : block_type[i] >= 128 THEN Raised("UnicodeDecodeError")
       ELSE [pos    |-> IF end % 16 > 0 THEN end + (16 - (end % 16)) ELSE end,
             blocks |-> DictPut(st.blocks, block_type, block_data)]

\* while len(blocks) < num_blocks
RECURSIVE ReadBlocks(_, _, _, _)
ReadBlocks(data, order, st, num_blocks) ==
    IF ~("pos" \in DOMAIN st) THEN st
    ELSE IF Len(st.blocks) >= num_blocks THEN st
    ELSE CHOOSE r \in {ReadBlocks(data, order, next, num_blocks) :
                           next \in {ReadBlock(data, order, st)}} : TRUE

\* LMSFile._read_header(self, data): the fields it assigns, or the exception
ReadHeader(data) ==
    LET byte_order == FromBom(Slice(data, 8, 10))
        enc_type == data[13]
        version == data[14]
        num_blocks == Unpack(byte_order.value, Slice(data, 14, 16))
        encoding == IF enc_type = 0 THEN "utf-8"
                    ELSE IF enc_type = 1
                         THEN (IF byte_order.value.suffix = "le" THEN "utf-16-le" ELSE "utf-16-be")
                    ELSE (IF byte_order.value.suffix = "le" THEN "utf-32-le" ELSE "utf-32-be")
    IN IF Len(data) < 10 THEN Raised("struct.error")
       ELSE IF ~IsOk(byte_order) THEN byte_order
       ELSE IF Len(data) < 32 THEN Raised("struct.error")
       ELSE IF version /= LMS_VERSION THEN Raised("ValueError")
       ELSE IF enc_type \notin {0, 1, 2} THEN Raised("ValueError")
       ELSE CHOOSE r \in
                {IF IsRaised(blocks) THEN blocks
                 ELSE Ok([magic |-> Slice(data, 0, 8), byte_order |-> byte_order.value,
                          encoding |-> encoding, raw_blocks |-> blocks.blocks]) :
                 blocks \in {ReadBlocks(data, byte_order.value,
                                        [pos |-> 32, blocks |-> <<>>], num_blocks)}} : TRUE

\* LMSFile._write_header(self, f) on an empty buffer
WriteHeader(file) ==
    LET encoding_num == IF file.encoding = "utf-8" THEN 0
                        ELSE IF file.encoding \in {"utf-16-le", "utf-16-be"} THEN 1
                        ELSE IF file.encoding \in {"utf-32-le", "utf-32-be"} THEN 2
                        ELSE 0
    IN file.magic \o file.byte_order.bom
       \o <<0, 0, encoding_num, LMS_VERSION>> \o Pack(file.byte_order, 2, Len(file.blocks))
       \o <<0, 0>> \o Pack(file.byte_order, 4, 0) \o Zeros(10)

\* _parse_blocks leaving out the blocks whose tag is not in types
ParseBlocksSkipping(types, file) ==
    LET known == SelectSeq(file.raw_blocks, LAMBDA raw : raw[1] \in DictKeys(types))
    IN CHOOSE r \in
           {IF ~IsOk(parsed) THEN parsed
            ELSE Ok([i \in 1..Len(known) |-> <<known[i][1], parsed.value[i]>>]) :
            parsed \in {Collect([i \in 1..Len(known) |->
                            BlockFromBytes(DictGet(types, known[i][1]),
                                           known[i][2], file)])}} : TRUE

\* LMSFile._parse_blocks(self, types): the dict of parsed blocks, or the failure of
\* the first block (in raw_blocks order) that is not in types or does not parse
ParseBlocks(types, file) ==
    CHOOSE r \in
        {IF ~IsOk(parsed) THEN parsed
         ELSE Ok([i \in 1..Len(file.raw_blocks) |->
                     <<file.raw_blocks[i][1], parsed.value[i]>>]) :
         parsed \in {Collect([i \in 1..Len(file.raw_blocks) |->
                         IF file.raw_blocks[i][1] \notin DictKeys(types)
                         THEN Raised("RuntimeError")
                         ELSE CHOOSE blk \in
                                  {BlockFromBytes(DictGet(types, file.raw_blocks[i][1]),
                                                  block_data, file) :
                                   block_data \in {file.raw_blocks[i][2]}} : TRUE])}} : TRUE

\* LMSFile._write_blocks(self, f) from block i on: block header, data, 0xAB padding
RECURSIVE WriteBlocks(_, _, _)
WriteBlocks(file, buf, i) ==
    IF i > Len(file.blocks) THEN Ok(buf)
    ELSE LET block_data == BlockToBytes(file.blocks[i][2])
         IN IF ~IsOk(block_data) THEN block_data
            ELSE WriteBlocks(file,
                     AlignBuf(buf \o file.blocks[i][1]
                              \o Pack(file.byte_order, 4, Len(block_data.value)) \o Zeros(8)
                              \o block_data.value, 16, 171),
                     i + 1)

\* LMSFile.to_bytes(self)
LMSToBytes(file) ==
    LET written == WriteBlocks(file, WriteHeader(file), 1)
    IN IF ~IsOk(written) THEN written
       ELSE Ok(WriteAt(written.value, 18, Pack(file.byte_order, 4, Len(written.value))))

\* cls.from_bytes(data), for cls one of the three file classes
LMSFromBytes(cls, data) ==
    CHOOSE r \in
        {IF ~IsOk(header) THEN header
         ELSE IF header.value.magic /= Magic(cls) THEN Raised("TypeError")
         ELSE CHOOSE q \in
                  {IF ~IsOk(blocks) THEN blocks
                   ELSE Ok([cls |-> cls, magic |-> header.value.magic,
                            byte_order |-> header.value.byte_order,
                            encoding |-> header.value.encoding,
                            raw_blocks |-> header.value.raw_blocks,
                            blocks |-> blocks.value]) :
                   blocks \in {ParseBlocks(Sections(cls), header.value)}} : TRUE :
         header \in {ReadHeader(data)}} : TRUE

(***************************************************************************)
(* lib/new_darc.py: ByteOrder                                              *)
(***************************************************************************)
DARC_LITTLE_ENDIAN == [struct |-> "<", wchar |-> "utf-16-le", bom |-> <<255, 254>>]

DARC_BIG_ENDIAN == [struct |-> ">", wchar |-> "utf-16-be", bom |-> <<254, 255>>]

DarcByteOrders == {DARC_LITTLE_ENDIAN, DARC_BIG_ENDIAN}

DARC_MAGIC == <<100, 97, 114, 99>>   \* b"darc"

(***************************************************************************)
(* lib/new_darc.py: DarcEntry                                              *)
(*                                                                         *)
(* The entries live in a heap, a sequence of records indexed by identity:  *)
(* [name, is_dir, children (identities), data, parent (identity or 0 for   *)
(* None)].  _data is None or [bytes |-> b].                                 *)
(***************************************************************************)
\* DarcEntry(name, is_dir)
DarcEntry(name, is_dir) ==
    [name |-> name, is_dir |-> is_dir, children |-> <<>>, data |-> None, parent |-> 0]

\* DarcEntry.length: the number of children of a directory, the payload size of a file
EntryLength(h, e) ==
    IF h[e].is_dir THEN Len(h[e].children)
    ELSE IF h[e].data /= None /\ h[e].data.bytes /= <<>> THEN Len(h[e].data.bytes)
    ELSE 0

\* DarcEntry.data (getter) of a file: self._data or bytes()
EntryData(h, e) == IF h[e].data /= None THEN h[e].data.bytes ELSE <<>>

\* child._parent = self; self._children.append(child), for a directory self
AddChild(h, d, c) ==
    [h EXCEPT ![c].parent = d, ![d].children = Append(@, c)]

\* list.remove(c): the list without the first element that is c
RemoveFirst(s, c) ==
    LET k == CHOOSE i \in 1..Len(s) : s[i] = c /\ \A j \in 1..(i - 1) : s[j] /= c
    IN SubSeq(s, 1, k - 1) \o SubSeq(s, k + 1, Len(s))

\* child._parent = None; self._children.remove(child), for a directory self that
\* holds child
RemoveChild(h, d, c) ==
    [h EXCEPT ![c].parent = 0, ![d].children = RemoveFirst(@, c)]

\* "/".join(names)
RECURSIVE Join(_)
Join(names) ==
    IF Len(names) = 0 THEN <<>>
    ELSE IF Len(names) = 1 THEN names[1]
    ELSE names[1] \o <<47>> \o Join(Tail(names))

\* the names from the entry without parent down to e, along the _parent links
RECURSIVE AncestorNames(_, _)
AncestorNames(h, e) ==
    IF h[e].parent = 0 THEN <<h[e].name>>
    ELSE Append(AncestorNames(h, h[e].parent), h[e].name)

\* DarcEntry.filename
Filename(h, e) == Join(AncestorNames(h, e))

\* DarcEntry.flat_tree: the entry, then its children's flat trees in order
RECURSIVE FlatTree(_, _)
FlatTree(h, e) ==
    <<e>> \o (IF h[e].is_dir
              THEN Concat([i \in 1..Len(h[e].children) |-> FlatTree(h, h[e].children[i])])
              ELSE <<>>)

\* DarcEntry.breadth_tree: the sub-directories' trees, then the files, then the entry
RECURSIVE BreadthTree(_, _)
BreadthTree(h, e) ==
    (IF h[e].is_dir
     THEN Concat([i \in 1..Len(h[e].children) |->
                     IF h[h[e].children[i]].is_dir
                     THEN BreadthTree(h, h[e].children[i]) ELSE <<>>])
          \o Concat([i \in 1..Len(h[e].children) |->
                     IF ~h[h[e].children[i]].is_dir
                     THEN BreadthTree(h, h[e].children[i]) ELSE <<>>])
     ELSE <<>>) \o <<e>>

RECURSIVE Sum(_)
Sum(s) == IF s = <<>> THEN 0 ELSE Head(s) + Sum(Tail(s))

\* DarcEntry.dir_entry_size: the number of entries of the subtree
RECURSIVE DirEntrySize(_, _)
DirEntrySize(h, e) ==
    1 + (IF h[e].is_dir
         THEN Sum([i \in 1..Len(h[e].children) |-> DirEntrySize(h, h[e].children[i])])
         ELSE 0)

(***************************************************************************)
(* lib/new_darc.py: Darc.to_bytes                                          *)
(***************************************************************************)
DARC_VERSION == 16777216     \* 0x1000000

DIR_FLAG == 16777216         \* 0x01000000, the directory bit of a record's name field

HEADER_LEN == 28             \* 0x1C

ENTRY_LEN == 12              \* 0xC

DATA_ALIGN == 32             \* 0x20

UNSET == <<255, 255, 255, 255>>   \* pack("I", 0xFFFFFFFF)

\* name.encode("utf-16-le" | "utf-16-be"), for code points below 0x10000
Utf16Encode(order, str) == Concat([i \in 1..Len(str) |-> Pack(order, 2, str[i])])

AlignNone(buf) == buf

\* align(b): zero bytes up to the next multiple of 0x20
Align(buf) ==
    IF Len(buf) % DATA_ALIGN > 0 THEN buf \o Zeros(DATA_ALIGN - (Len(buf) % DATA_ALIGN)) ELSE buf

\* the ident and the header with its three placeholders
DarcHeader(order) ==
    DARC_MAGIC \o order.bom \o Pack(order, 2, HEADER_LEN) \o Pack(order, 4, DARC_VERSION)
    \o UNSET \o Pack(order, 4, HEADER_LEN) \o UNSET \o UNSET

\* one turn of the loop over flat_tree(): entry e gets index st.i, its name goes to
\* the name table, its record to the buffer, and filename_to_index[e.filename] = i.
\* filename_to_index is st.index; the key None is the entry without parent.
DarcWriteEntry(h, order, st, e) ==
    LET name_offset == Len(st.names)
        known == h[e].parent = 0 \/ Filename(h, h[e].parent) \in DictKeys(st.index)
        second == IF ~h[e].is_dir THEN 0
                  ELSE IF h[e].parent = 0 THEN 0
                  ELSE DictGet(st.index, Filename(h, h[e].parent))
        third == IF h[e].is_dir THEN st.i + DirEntrySize(h, e) ELSE EntryLength(h, e)
    IN IF h[e].is_dir /\ ~known THEN Raised("KeyError")
       ELSE [buf   |-> st.buf
                       \o Pack(order, 4, name_offset + (IF h[e].is_dir THEN DIR_FLAG ELSE 0))
                       \o Pack(order, 4, second) \o Pack(order, 4, third),
             names |-> st.names \o Utf16Encode(order, h[e].name) \o <<0, 0>>,
             index |-> DictPut(st.index, Filename(h, e), st.i),
             i     |-> st.i + 1]

RECURSIVE DarcWriteTable(_, _, _, _)
DarcWriteTable(h, order, st, flat) ==
    IF ~("buf" \in DOMAIN st) \/ flat = <<>> THEN st
    ELSE DarcWriteTable(h, order, DarcWriteEntry(h, order, st, Head(flat)), Tail(flat))

\* one turn of the loop over breadth_tree() for a file e: align, write the payload,
\* patch (offset, length) into the record filename_to_index[e.filename] names
DarcWriteFile(h, order, index, buf, e) ==
    LET aligned == Align(buf)
        file_pos == Len(aligned)
        record == HEADER_LEN + ENTRY_LEN * DictGet(index, Filename(h, e))
    IN WriteAt(aligned \o EntryData(h, e), record + 4,
               Pack(order, 4, file_pos) \o Pack(order, 4, EntryLength(h, e)))

RECURSIVE DarcWriteFiles(_, _, _, _, _)
DarcWriteFiles(h, order, index, buf, walk) ==
    IF walk = <<>> THEN buf
    ELSE DarcWriteFiles(h, order, index,
                        IF h[Head(walk)].is_dir THEN buf
                        ELSE DarcWriteFile(h, order, index, buf, Head(walk)),
                        Tail(walk))

\* Darc.to_bytes(self), for the archive arc = [byte_order, root_entry] over heap h
DarcToBytes(h, arc) ==
    LET order == arc.byte_order
        root == arc.root_entry
        table == DarcWriteTable(h, order,
                     [buf |-> DarcHeader(order), names |-> <<>>,
                      index |-> <<<<Filename(h, root), 0>>>>, i |-> 0],
                     FlatTree(h, root))
    IN IF IsRaised(table) THEN table
       ELSE LET name_table_end == Len(table.buf) + Len(table.names)
                with_len == WriteAt(table.buf \o table.names, 20,
                                    Pack(order, 4, name_table_end - HEADER_LEN))
                aligned == Align(with_len)
                with_start == WriteAt(aligned, 24, Pack(order, 4, Len(aligned)))
                with_files == DarcWriteFiles(h, order, table.index, with_start,
                                             BreadthTree(h, root))
            IN Ok(WriteAt(with_files, 12, Pack(order, 4, Len(with_files))))

(***************************************************************************)
(* lib/new_darc.py: Darc.from_bytes                                        *)
(***************************************************************************)
\* the loop "while (ch := f.read(2)) != b'\x00\x00': name += ch.decode(wchar)" from
\* cursor pos: at the end of the data read() returns b"" for ever, one byte or a
\* surrogate code unit does not decode
RECURSIVE DarcReadName(_, _, _, _)
DarcReadName(data, order, pos, name) ==
    LET ch == Read(data, pos, 2)
    IN IF ch = <<0, 0>> THEN Ok(name)
       ELSE IF Len(ch) = 0 THEN Hangs
       ELSE IF Len(ch) = 1 THEN Raised("UnicodeDecodeError")
       ELSE IF Unpack(order, ch) \in 55296..57343 THEN Raised("UnicodeDecodeError")
       ELSE DarcReadName(data, order, pos + 2, Append(name, Unpack(order, ch)))

\* one turn of the loop over raw_file_table, for row i (the root's record is not a
\* row) on st = [heap, stack]; a stack item is [node, end]
DarcReadRow(data, order, name_table_start, st, i) ==
    LET row == Slice(data, HEADER_LEN + ENTRY_LEN * (i + 1), HEADER_LEN + ENTRY_LEN * (i + 2))
        name_field == Unpack(order, SubSeq(row, 1, 4))
        file_offset == Unpack(order, SubSeq(row, 5, 8))
        length == Unpack(order, SubSeq(row, 9, 12))
        stack == IF st.stack[Len(st.stack)].end = i
                 THEN SubSeq(st.stack, 1, Len(st.stack) - 1) ELSE st.stack
        is_dir == (name_field \div DIR_FLAG) % 2 = 1
        name_offset == IF is_dir THEN name_field - DIR_FLAG ELSE name_field
        name == DarcReadName(data, order, name_table_start + name_offset, <<>>)
        entry == Len(st.heap) + 1
        made == Append(st.heap, DarcEntry(name.value, is_dir))
        attached == AddChild(made, stack[Len(stack)].node, entry)
    IN IF st.stack = <<>> THEN Raised("IndexError")
       ELSE IF ~IsOk(name) THEN name
       ELSE IF stack = <<>> THEN Raised("IndexError")
       ELSE IF ~is_dir
            THEN [heap  |-> [attached EXCEPT ![entry].data =
                                 [bytes |-> Read(data, file_offset, length)]],
                  stack |-> stack]
            ELSE [heap  |-> attached,
                  stack |-> Append(stack, [node |-> entry, end |-> length - 1])]

RECURSIVE DarcReadRows(_, _, _, _, _, _)
DarcReadRows(data, order, name_table_start, st, i, rows) ==
    IF ~("heap" \in DOMAIN st) \/ i >= rows THEN st
    ELSE DarcReadRows(data, order, name_table_start,
                      DarcReadRow(data, order, name_table_start, st, i), i + 1, rows)

\* Darc.from_bytes(data): the archive [byte_order, root_entry] over a new heap whose
\* entry 1 is the root
DarcFromBytes(data) ==
    LET bom == Slice(data, 4, 6)
        byte_order == IF bom = <<254, 255>> THEN DARC_BIG_ENDIAN ELSE DARC_LITTLE_ENDIAN
        version == Unpack(byte_order, Slice(data, 8, 12))
        end_index == Unpack(byte_order, Slice(data, 36, 40))
        rows == IF end_index - 1 > 0 THEN end_index - 1 ELSE 0
        name_table_start == HEADER_LEN + ENTRY_LEN * (rows + 1)
        read == DarcReadRows(data, byte_order, name_table_start,
                             [heap  |-> <<DarcEntry(<<>>, TRUE)>>,
                              stack |-> <<[node |-> 1, end |-> end_index]>>],
                             0, rows)
    IN IF Len(data) < 6 THEN Raised("struct.error")
       ELSE IF Slice(data, 0, 4) /= DARC_MAGIC THEN Raised("TypeError")
       ELSE IF Len(data) < HEADER_LEN THEN Raised("struct.error")
       ELSE IF version /= DARC_VERSION THEN Raised("TypeError")
       ELSE IF Len(data) < HEADER_LEN + ENTRY_LEN THEN Raised("struct.error")
       ELSE IF Len(data) < HEADER_LEN + ENTRY_LEN * (rows + 1) THEN Raised("struct.error")
       ELSE IF ~("heap" \in DOMAIN read) THEN read
       ELSE Ok([heap |-> read.heap, arc |-> [byte_order |-> byte_order, root_entry |-> 1]])

(***************************************************************************)
(* The hash-table blocks that are built, written and read back             *)
(***************************************************************************)
MaxLabels == 2

MaxSlots == 2

\* "A", "Msg_Hello", "Msg_Bye", "zzzz" (its fold exceeds 2^32), and U+00E9
LABEL_A     == <<65>>
LABEL_HELLO == <<77, 115, 103, 95, 72, 101, 108, 108, 111>>
LABEL_BYE   == <<77, 115, 103, 95, 66, 121, 101>>
LABEL_ZZZZ  == <<122, 122, 122, 122>>
LABEL_E     == <<233>>

LabelPool == {LABEL_A, LABEL_HELLO, LABEL_BYE, LABEL_ZZZZ, LABEL_E}

ValuePool == {7, 9}

SlotCounts == (1..MaxSlots) \cup {101}

\* HashTableBlock(num_slots, byte_order)
HashInit ==
    /\ ht \in [num_slots : SlotCounts, labels : {<<>>}, byte_order : ByteOrders]
    /\ ht_bytes = None
    /\ ht_parsed = None
    /\ GuessIdle
    /\ DarcIdle
    /\ LmsIdle
    /\ OmsIdle
    /\ TxtIdle
    /\ TreeIdle

\* tab.labels[label] = value, before the block is written
HtPut(label, value) ==
    /\ ht_bytes = None
    /\ Cardinality(DictKeys(ht.labels) \cup {label}) <= MaxLabels
    /\ ht' = [ht EXCEPT !.labels = DictPut(@, label, value)]
    /\ UNCHANGED <<ht_bytes, ht_parsed, guessVars, darcVars, lmsVars, omsVars, txtVars, treeVars>>

HtEmit ==
    /\ ht_bytes = None
    /\ ht_bytes' = HtToBytes(ht)
    /\ UNCHANGED <<ht, ht_parsed, guessVars, darcVars, lmsVars, omsVars, txtVars, treeVars>>

HtParse ==
    /\ ht_bytes /= None
    /\ ~IsRaised(ht_bytes)
    /\ ht_parsed = None
    /\ ht_parsed' = HtFromBytes(ht_bytes.value, ht.byte_order)
    /\ UNCHANGED <<ht, ht_bytes, guessVars, darcVars, lmsVars, omsVars, txtVars, treeVars>>

(***************************************************************************)
(* Archives: a client builds a tree entry by entry, writes it, parses the  *)
(* bytes (as written, or with another byte-order mark) and writes the      *)
(* parsed archive again.                                                   *)
(***************************************************************************)
MaxEntries == 4

NAME_A == <<97>>

NAME_B == <<98>>

NamePool == {NAME_A, NAME_B}

PayloadPool == {<<1>>, <<2, 3>>}

\* marks that are neither FF FE nor FE FF
BadBoms == {<<0, 0>>, <<255, 255>>}

\* Darc(byte_order): the root entry is DarcEntry("")
DarcInit ==
    /\ d_heap = <<DarcEntry(<<>>, FALSE)>>
    /\ d_arc \in [byte_order : DarcByteOrders, root_entry : {1}]
    /\ d_bytes = None
    /\ d_input = None
    /\ d_parsed = None
    /\ d_bytes2 = None
    /\ GuessIdle
    /\ HashIdle
    /\ LmsIdle
    /\ OmsIdle
    /\ TxtIdle
    /\ TreeIdle

\* arc.root_entry = DarcEntry("", is_dir=True), on a new archive
DarcSetRoot ==
    /\ d_bytes = None
    /\ d_heap = <<DarcEntry(<<>>, FALSE)>>
    /\ d_heap' = <<DarcEntry(<<>>, TRUE)>>
    /\ UNCHANGED <<d_arc, d_bytes, d_input, d_parsed, d_bytes2, guessVars, hashVars, lmsVars, omsVars, txtVars, treeVars>>

\* the directories new entries go to: the root and the last child, repeatedly
RECURSIVE OpenDirs(_, _)
OpenDirs(h, e) ==
    IF ~h[e].is_dir THEN {}
    ELSE {e} \cup (IF h[e].children = <<>> THEN {}
                   ELSE OpenDirs(h, h[e].children[Len(h[e].children)]))

\* e = DarcEntry(name, True); parent.add_child(e)
DarcAddDir(parent, name) ==
    /\ d_bytes = None
    /\ Len(d_heap) < MaxEntries
    /\ parent \in OpenDirs(d_heap, d_arc.root_entry)
    /\ d_heap' = AddChild(Append(d_heap, DarcEntry(name, TRUE)), parent, Len(d_heap) + 1)
    /\ UNCHANGED <<d_arc, d_bytes, d_input, d_parsed, d_bytes2, guessVars, hashVars, lmsVars, omsVars, txtVars, treeVars>>

\* e = DarcEntry(name); e.data = payload; parent.add_child(e)
DarcAddFile(parent, name, payload) ==
    /\ d_bytes = None
    /\ Len(d_heap) < MaxEntries
    /\ parent \in OpenDirs(d_heap, d_arc.root_entry)
    /\ d_heap' = AddChild(Append(d_heap, [DarcEntry(name, FALSE) EXCEPT !.data = [bytes |-> payload]]),
                          parent, Len(d_heap) + 1)
    /\ UNCHANGED <<d_arc, d_bytes, d_input, d_parsed, d_bytes2, guessVars, hashVars, lmsVars, omsVars, txtVars, treeVars>>

\* parent.remove_child(child), for a directory of the tree and one of its children
DarcRemoveChild(parent, child) ==
    /\ d_bytes = None
    /\ parent \in Range(FlatTree(d_heap, d_arc.root_entry))
    /\ d_heap[parent].is_dir
    /\ child \in Range(d_heap[parent].children)
    /\ d_heap' = RemoveChild(d_heap, parent, child)
    /\ UNCHANGED <<d_arc, d_bytes, d_input, d_parsed, d_bytes2, guessVars, hashVars, lmsVars, omsVars, txtVars, treeVars>>

\* d_arc.to_bytes()
DarcEmit ==
    /\ d_bytes = None
    /\ d_bytes' = DarcToBytes(d_heap, d_arc)
    /\ UNCHANGED <<d_heap, d_arc, d_input, d_parsed, d_bytes2, guessVars, hashVars, lmsVars, omsVars, txtVars, treeVars>>

\* Darc.from_bytes(d_bytes)
DarcParse ==
    /\ IsOk(d_bytes)
    /\ d_input = None
    /\ d_input' = [bytes |-> d_bytes.value]
    /\ d_parsed' = DarcFromBytes(d_bytes.value)
    /\ UNCHANGED <<d_heap, d_arc, d_bytes, d_bytes2, guessVars, hashVars, lmsVars, omsVars, txtVars, treeVars>>

\* Darc.from_bytes of the written bytes with bytes 4..5 replaced by bom
DarcParseMarked(bom) ==
    /\ IsOk(d_bytes)
    /\ d_input = None
    /\ d_input' = [bytes |-> WriteAt(d_bytes.value, 4, bom)]
    /\ d_parsed' = DarcFromBytes(WriteAt(d_bytes.value, 4, bom))
    /\ UNCHANGED <<d_heap, d_arc, d_bytes, d_bytes2, guessVars, hashVars, lmsVars, omsVars, txtVars, treeVars>>

\* to_bytes() of the archive from_bytes returned
DarcReEmit ==
    /\ IsOk(d_parsed)
    /\ d_bytes2 = None
    /\ d_bytes2' = DarcToBytes(d_parsed.value.heap, d_parsed.value.arc)
    /\ UNCHANGED <<d_heap, d_arc, d_bytes, d_input, d_parsed, guessVars, hashVars, lmsVars, omsVars, txtVars, treeVars>>

DarcNext ==
    \/ DarcSetRoot
    \/ \E parent \in 1..MaxEntries, name \in NamePool : DarcAddDir(parent, name)
    \/ \E parent \in 1..MaxEntries, name \in NamePool, payload \in PayloadPool :
           DarcAddFile(parent, name, payload)
    \/ \E parent \in 1..MaxEntries, child \in 1..MaxEntries : DarcRemoveChild(parent, child)
    \/ DarcEmit
    \/ DarcParse
    \/ \E bom \in BadBoms : DarcParseMarked(bom)
    \/ DarcReEmit

\* a client that puts files into the root directory only
NAME_A_MSBT == <<97, 46, 109, 115, 98, 116>>   \* "a.msbt"

FlatNamePool == {NAME_A_MSBT, NAME_B}

FlatPayloadPool == {MAGIC_STD, <<1>>}

DarcFlatNext ==
    \/ DarcSetRoot
    \/ \E name \in FlatNamePool, payload \in FlatPayloadPool :
           DarcAddFile(d_arc.root_entry, name, payload)
    \/ DarcEmit
    \/ DarcParse
    \/ DarcReEmit

SpecDarcFlat == DarcInit /\ [][DarcFlatNext]_vars

(***************************************************************************)
(* Message files: a client makes a file object of one of the three         *)
(* classes, sets it up, puts blocks into it and writes it; the bytes are   *)
(* parsed by the same class, as written or with one header field replaced, *)
(* and the parsed file is written again.                                   *)
(***************************************************************************)
MaxBlocks == 3

\* the encodings _read_header derives for a byte order
FileEncodings(order) ==
    IF order = LITTLE_ENDIAN THEN {"utf-8", "utf-16-le", "utf-32-le"}
    ELSE {"utf-8", "utf-16-be", "utf-32-be"}

\* a TXT2 body with the one message "Hi"
Txt2Body(order, encoding) ==
    Pack(order, 4, 1) \o Pack(order, 4, 8) \o Encode(encoding, <<72, 105>>)
    \o Encode(encoding, <<0>>)

\* an UnknownBlock holding data
Opaque(data) == [data |-> data]

\* the blocks put into a file: for each class, blocks of its tag table and one block
\* whose tag is not in the table
BlockChoices(file) ==
    LET order == file.byte_order
        encoding == file.encoding
        table == [num_slots |-> 2, labels |-> <<<<LABEL_A, 7>>, <<LABEL_BYE, 9>>>>,
                  byte_order |-> order]
    IN IF file.cls = "LMSProjectFile"
       THEN {<<TAG_CLR1, [colors |-> <<<<255, 0, 0, 255>>>>, byte_order |-> order]>>,
             <<TAG_CLB1, table>>,
             <<TAG_ALI2, [lists |-> <<<<NAME_A, NAME_B>>>>, byte_order |-> order,
                          encoding |-> encoding]>>,
             <<TAG_TGG2, [groups |-> <<<<NAME_A, <<0>>>>>>, byte_order |-> order,
                          encoding |-> encoding]>>,
             <<TAG_TGL2, [names |-> <<NAME_A>>, byte_order |-> order,
                          encoding |-> encoding]>>,
             <<TAG_CTI1, [filenames |-> <<NAME_A, NAME_B>>, byte_order |-> order,
                          encoding |-> encoding]>>,
             <<TAG_TXT2, Opaque(Txt2Body(order, encoding))>>}
       ELSE IF file.cls = "LMSStandardFile"
       THEN {<<TAG_LBL1, table>>,
             <<TAG_ATR1, Opaque(<<1, 2, 3>>)>>,
             <<TAG_TXT2, Opaque(Txt2Body(order, encoding))>>,
             <<TAG_CLR1, [colors |-> <<<<255, 0, 0, 255>>>>, byte_order |-> order]>>}
       ELSE {<<TAG_FLW3, Opaque(<<9, 9>>)>>,
             <<TAG_FEN1, table>>,
             <<TAG_TXT2, Opaque(Txt2Body(order, encoding))>>}

\* header fields written over before parsing: <<offset, bytes>> for the byte-order
\* mark (offset 8), the encoding code (offset 12) and the version (offset 13)
HeaderPatches ==
    {<<8, <<0, 0>>>>, <<8, <<255, 255>>>>,
     <<12, <<0>>>>, <<12, <<1>>>>, <<12, <<2>>>>, <<12, <<3>>>>,
     <<13, <<2>>>>, <<13, <<4>>>>}

\* cls()
LmsInit ==
    /\ m_file \in {LMSFile(cls) : cls \in FileClasses}
    /\ m_bytes = None
    /\ m_input = None
    /\ m_header = None
    /\ m_parsed = None
    /\ m_bytes2 = None
    /\ GuessIdle
    /\ HashIdle
    /\ DarcIdle
    /\ OmsIdle
    /\ TxtIdle
    /\ TreeIdle

\* file.magic = cls.MAGIC; file.byte_order = order; file.encoding = encoding
LmsSetUp(order, encoding) ==
    /\ m_bytes = None
    /\ m_file.magic = <<>>
    /\ encoding \in FileEncodings(order)
    /\ m_file' = [m_file EXCEPT !.magic = Magic(m_file.cls), !.byte_order = order,
                                !.encoding = encoding]
    /\ UNCHANGED <<m_bytes, m_input, m_header, m_parsed, m_bytes2,
                   guessVars, hashVars, darcVars, omsVars, txtVars, treeVars>>

\* file.blocks[tag] = block, for a tag the file does not hold yet
LmsPutBlock(choice) ==
    /\ m_bytes = None
    /\ m_file.magic /= <<>>
    /\ Len(m_file.blocks) < MaxBlocks
    /\ choice \in BlockChoices(m_file)
    /\ choice[1] \notin DictKeys(m_file.blocks)
    /\ m_file' = [m_file EXCEPT !.blocks = DictPut(@, choice[1], choice[2])]
    /\ UNCHANGED <<m_bytes, m_input, m_header, m_parsed, m_bytes2,
                   guessVars, hashVars, darcVars, omsVars, txtVars, treeVars>>

\* file.to_bytes()
LmsEmit ==
    /\ m_bytes = None
    /\ m_bytes' = LMSToBytes(m_file)
    /\ UNCHANGED <<m_file, m_input, m_header, m_parsed, m_bytes2,
                   guessVars, hashVars, darcVars, omsVars, txtVars, treeVars>>

\* cls.from_bytes(m_bytes); m_header is what its _read_header call gave
LmsParse ==
    /\ IsOk(m_bytes)
    /\ m_input = None
    /\ \E data \in {m_bytes.value} :
          /\ m_input' = [bytes |-> data]
          /\ m_header' = ReadHeader(data)
          /\ m_parsed' = LMSFromBytes(m_file.cls, data)
    /\ UNCHANGED <<m_file, m_bytes, m_bytes2, guessVars, hashVars, darcVars, omsVars, txtVars, treeVars>>

\* cls.from_bytes of the written bytes with one header field replaced
LmsParsePatched(patch) ==
    /\ IsOk(m_bytes)
    /\ m_input = None
    /\ \E data \in {WriteAt(m_bytes.value, patch[1], patch[2])} :
          /\ m_input' = [bytes |-> data]
          /\ m_header' = ReadHeader(data)
          /\ m_parsed' = LMSFromBytes(m_file.cls, data)
    /\ UNCHANGED <<m_file, m_bytes, m_bytes2, guessVars, hashVars, darcVars, omsVars, txtVars, treeVars>>

\* the offset of the header of block k (from 1) of written bytes, the first block
\* being at pos
RECURSIVE BlockPos(_, _, _, _)
BlockPos(data, order, pos, k) ==
    IF k <= 1 THEN pos
    ELSE LET end == pos + 16 + Unpack(order, Read(data, pos + 4, 4))
         IN BlockPos(data, order,
                     IF end % 16 > 0 THEN end + (16 - (end % 16)) ELSE end, k - 1)

\* written bytes with the tag of block k replaced by the tag of block j
Retag(data, order, k, j) ==
    WriteAt(data, BlockPos(data, order, 32, k), Read(data, BlockPos(data, order, 32, j), 4))

\* written bytes with every byte between the end of a block body and the next
\* multiple of 16 replaced: the byte at offset p becomes fill[1] + fill[2] * p
RECURSIVE Repad(_, _, _, _)
Repad(data, order, pos, fill) ==
    IF pos + 16 > Len(data) THEN data
    ELSE LET end == pos + 16 + Unpack(order, Read(data, pos + 4, 4))
             next == IF end % 16 > 0 THEN end + (16 - (end % 16)) ELSE end
         IN Repad([p \in 1..Len(data) |->
                      IF p > end /\ p <= next THEN (fill[1] + fill[2] * (p - 1)) % 256
                      ELSE data[p]],
                  order, next, fill)

\* the padding written instead of 0xAB: zeros, 0xFF, and bytes that differ from
\* one offset to the next
FillPool == {<<0, 0>>, <<255, 0>>, <<1, 7>>}

\* cls.from_bytes of the written bytes with two blocks carrying the same tag
LmsParseRetagged(k, j) ==
    /\ IsOk(m_bytes)
    /\ m_input = None
    /\ Len(m_file.magic) = 8
    /\ k \in 1..Len(m_file.blocks)
    /\ j \in 1..Len(m_file.blocks)
    /\ k /= j
    /\ \E data \in {Retag(m_bytes.value, m_file.byte_order, k, j)} :
          /\ m_input' = [bytes |-> data]
          /\ m_header' = ReadHeader(data)
          /\ m_parsed' = LMSFromBytes(m_file.cls, data)
    /\ UNCHANGED <<m_file, m_bytes, m_bytes2, guessVars, hashVars, darcVars, omsVars, txtVars, treeVars>>

\* cls.from_bytes of the written bytes with other padding bytes
LmsParseRepadded(fill) ==
    /\ IsOk(m_bytes)
    /\ m_input = None
    /\ Len(m_file.magic) = 8
    /\ \E data \in {Repad(m_bytes.value, m_file.byte_order, 32, fill)} :
          /\ data /= m_bytes.value
          /\ m_input' = [bytes |-> data]
          /\ m_header' = ReadHeader(data)
          /\ m_parsed' = LMSFromBytes(m_file.cls, data)
    /\ UNCHANGED <<m_file, m_bytes, m_bytes2, guessVars, hashVars, darcVars, omsVars, txtVars, treeVars>>

\* to_bytes() of the file from_bytes returned
LmsReEmit ==
    /\ IsOk(m_parsed)
    /\ m_bytes2 = None
    /\ \E file \in {m_parsed.value} : m_bytes2' = LMSToBytes(file)
    /\ UNCHANGED <<m_file, m_bytes, m_input, m_header, m_parsed,
                   guessVars, hashVars, darcVars, omsVars, txtVars, treeVars>>

LmsNext ==
    \/ \E order \in ByteOrders : \E encoding \in FileEncodings(order) :
          LmsSetUp(order, encoding)
    \/ \E choice \in BlockChoices(m_file) : LmsPutBlock(choice)
    \/ LmsEmit
    \/ LmsParse
    \/ \E patch \in HeaderPatches : LmsParsePatched(patch)
    \/ \E k \in 1..MaxBlocks, j \in 1..MaxBlocks : LmsParseRetagged(k, j)
    \/ \E fill \in FillPool : LmsParseRepadded(fill)
    \/ LmsReEmit

GuessInit ==
    /\ g_data \in GuessInputs
    /\ g_result = "pending"
    /\ HashIdle
    /\ DarcIdle
    /\ LmsIdle
    /\ OmsIdle
    /\ TxtIdle
    /\ TreeIdle

Guess ==
    /\ g_result = "pending"
    /\ g_result' = FileTypeGuess(g_data)
    /\ UNCHANGED <<g_data, hashVars, darcVars, lmsVars, omsVars, txtVars, treeVars>>

GuessNext == Guess

SpecGuess == GuessInit /\ [][GuessNext]_vars

HashNext ==
    \/ \E label \in LabelPool, value \in ValuePool : HtPut(label, value)
    \/ HtEmit
    \/ HtParse

SpecHash == HashInit /\ [][HashNext]_vars

SpecDarc == DarcInit /\ [][DarcNext]_vars

SpecLMS == LmsInit /\ [][LmsNext]_vars

(***************************************************************************)
(* Properties: the file-type sniffer                                       *)
(***************************************************************************)
HasPrefix(data, m) == Len(data) >= Len(m) /\ SubSeq(data, 1, Len(m)) = m

\* the sniffer as a total function of the byte prefix
SniffByMagic(data) ==
    IF HasPrefix(data, <<17>>) THEN "LZ11_FILE"
    ELSE IF HasPrefix(data, MAGIC_DARC) THEN "DARC_FILE"
    ELSE IF HasPrefix(data, MAGIC_STD) THEN "MSBT_FILE"
    ELSE IF HasPrefix(data, MAGIC_PRJ) THEN "MSBP_FILE"
    ELSE IF HasPrefix(data, MAGIC_FLW) THEN "MSBF_FILE"
    ELSE "UNKNOWN_FILE"

\* C7: FileType.guess is total: for every byte string, the empty one and those
\* shorter than a magic included, it returns the member its prefix selects
\* (LZ11, Archive, Standard, Project, Flow, else Unknown) and never raises.
C7_GuessTotal == g_result /= "pending" => g_result = SniffByMagic(g_data)

(***************************************************************************)
(* Properties: the hash-table block                                        *)
(***************************************************************************)
HtWritten == ht_bytes /= None /\ ~IsRaised(ht_bytes)

\* h of the format: h(<<>>) = 0, h(s . c) = (h(s) * 0x492 + c) mod 2^32
FormatStep(h, c) ==
    <<(h[1] * 1170 + ((h[2] * 1170 + c) \div 65536)) % 65536, (h[2] * 1170 + c) % 65536>>

RECURSIVE FormatH(_)
FormatH(s) ==
    IF s = <<>> THEN <<0, 0>>
    ELSE FormatStep(FormatH(SubSeq(s, 1, Len(s) - 1)), s[Len(s)])

FormatSlot(s, n) == ((FormatH(s)[1] % n) * (65536 % n) + FormatH(s)[2]) % n

\* the labels of ht whose slot is x, in insertion order, and their records
LabelsOfSlot(x) ==
    LET InSlot(p) == FormatSlot(p[1], ht.num_slots) = x
    IN SelectSeq(ht.labels, InSlot)

RecordsOfSlot(x) ==
    LET ls == LabelsOfSlot(x)
    IN Concat([i \in 1..Len(ls) |->
                  Pack(ht.byte_order, 1, Len(ls[i][1])) \o Utf8Encode(ls[i][1])
                  \o Pack(ht.byte_order, 4, ls[i][2])])

\* the bytes taken by the records of the first k labels of ht that lie in slots below x
RECURSIVE RecordBytesBelow(_, _)
RecordBytesBelow(x, k) ==
    IF k = 0 THEN 0
    ELSE RecordBytesBelow(x, k - 1)
         + (IF FormatSlot(ht.labels[k][1], ht.num_slots) < x
            THEN 1 + Len(Utf8Encode(ht.labels[k][1])) + 4 ELSE 0)

SlotCountField(x) == Unpack(ht.byte_order, Read(ht_bytes.value, 4 + 8 * x, 4))

SlotOffsetField(x) == Unpack(ht.byte_order, Read(ht_bytes.value, 8 + 8 * x, 4))

\* C5: in the bytes written by HashTableBlock.to_bytes, every label is stored in
\* the slot numbered h(label, slot_count), h being the fold h*0x492 + c over the
\* characters from 0, mod 2^32, mod slot_count: each slot's label_count field is
\* the number of labels with that hash, and its labels_offset field is the offset
\* at which the records of exactly those labels lie, first label first.
C5_SlotLayout ==
    HtWritten =>
        \A x \in 0..(ht.num_slots - 1) :
            /\ SlotCountField(x) = Len(LabelsOfSlot(x))
            /\ SlotOffsetField(x) = 4 + 8 * ht.num_slots + RecordBytesBelow(x, Len(ht.labels))
            /\ Read(ht_bytes.value, SlotOffsetField(x), Len(RecordsOfSlot(x))) = RecordsOfSlot(x)

\* "Msg_Hello" written into a table of 101 slots lies in slot h("Msg_Hello", 101) = 98
C5_Witness ==
    /\ HtWritten
    /\ ht.num_slots = 101
    /\ Len(ht.labels) = 2
    /\ ht.labels[1][1] = LABEL_HELLO
    /\ FormatSlot(LABEL_HELLO, 101) = 98
    /\ SlotCountField(98) = 1
    /\ Read(ht_bytes.value, SlotOffsetField(98) + 1, 9) = LABEL_HELLO

\* the fold over the UTF-8 code units of the label
Utf8UnitHash(label, n) == FormatSlot(Utf8Encode(label), n)

\* C6: for every label, ASCII or not, and every slot count n >= 1,
\* HashTableBlock.hash(label, n) is the fold h*0x492 + b over the UTF-8 code
\* units b of the label from 0, mod 2^32, mod n.
C6_HashOverUtf8Units ==
    HtWritten =>
        \A i \in 1..Len(ht.labels) :
            Hash(ht.labels[i][1], ht.num_slots) = Utf8UnitHash(ht.labels[i][1], ht.num_slots)

\* C4: HashTableBlock.from_bytes(T.to_bytes()) returns a block with the slot
\* count of T and the label-to-value mapping of T, for labels ASCII or not.
C4_HashRoundTrip ==
    ht_parsed /= None =>
        /\ ~IsRaised(ht_parsed)
        /\ ht_parsed.value.num_slots = ht.num_slots
        /\ DictKeys(ht_parsed.value.labels) = DictKeys(ht.labels)
        /\ \A k \in DictKeys(ht.labels) :
               DictGet(ht_parsed.value.labels, k) = DictGet(ht.labels, k)

(***************************************************************************)
(* Properties: archives                                                    *)
(***************************************************************************)
\* C1: for every tree whose root is a directory, in either byte order, parsing the
\* bytes to_bytes() wrote succeeds and writing the parsed archive again gives the
\* same bytes.
C1_DarcRoundTrip ==
    (/\ d_parsed /= None
     /\ d_input = [bytes |-> d_bytes.value]
     /\ d_heap[d_arc.root_entry].is_dir)
    => /\ IsOk(d_parsed)
       /\ d_bytes2 /= None => d_bytes2 = d_bytes

\* C8: from_bytes returns no archive for an input whose bytes 4..5 are neither
\* FF FE nor FE FF.
C8_BadBomFails ==
    (/\ d_input /= None
     /\ Slice(d_input.bytes, 4, 6) \notin {<<255, 254>>, <<254, 255>>})
    => ~IsOk(d_parsed)

(***************************************************************************)
(* Properties: message files                                               *)
(***************************************************************************)
\* the tags of a dict of blocks, in dict order
BlockTags(blocks) == [i \in 1..Len(blocks) |-> blocks[i][1]]

\* from_bytes was handed the bytes m_file.to_bytes() returned, unaltered
ParsedAsWritten ==
    /\ m_input /= None
    /\ m_input = [bytes |-> m_bytes.value]

\* C2: for a Standard file M holding the blocks LBL1, ATR1, TXT2 in that order,
\* LMSStandardFile.from_bytes(M) succeeds with its blocks in that order, and
\* to_bytes() of the result succeeds and returns M, 0xAB padding included.
C2_StandardRoundTrip ==
    (/\ ParsedAsWritten
     /\ m_file.cls = "LMSStandardFile"
     /\ BlockTags(m_file.blocks) = <<TAG_LBL1, TAG_ATR1, TAG_TXT2>>)
    => /\ IsOk(m_parsed)
       /\ BlockTags(m_parsed.value.blocks) = <<TAG_LBL1, TAG_ATR1, TAG_TXT2>>
       /\ m_bytes2 /= None => m_bytes2 = m_bytes

\* C3: for every Project file value built from blocks of the Project tag table, in
\* either byte order and any of the three encodings, with B its to_bytes(),
\* LMSProjectFile.from_bytes(B).to_bytes() equals B, and every block body of B is
\* what to_bytes() of the block parsed from it returns.
C3_ProjectRoundTrip ==
    (/\ ParsedAsWritten
     /\ m_file.cls = "LMSProjectFile"
     /\ m_file.magic = MAGIC_PRJ
     /\ \A i \in 1..Len(m_file.blocks) :
            m_file.blocks[i][1] \in DictKeys(Sections("LMSProjectFile")))
    => /\ IsOk(m_parsed)
       /\ \A i \in 1..Len(m_parsed.value.blocks) :
              BlockToBytes(m_parsed.value.blocks[i][2]) = Ok(m_parsed.value.raw_blocks[i][2])
       /\ m_bytes2 /= None => m_bytes2 = m_bytes

\* the header fields of the bytes handed to from_bytes
InputBom == Slice(m_input.bytes, 8, 10)

InputEncodingCode == m_input.bytes[13]

InputVersion == m_input.bytes[14]

\* a header that is to be refused: a byte-order mark other than FF FE and FE FF, a
\* version other than 3, or an encoding code other than 0, 1, 2
BadHeader ==
    \/ InputBom \notin {<<255, 254>>, <<254, 255>>}
    \/ InputVersion /= 3
    \/ InputEncodingCode \notin {0, 1, 2}

\* the encoding expected of the encoding code and the byte-order mark
DerivedEncoding ==
    IF InputEncodingCode = 0 THEN "utf-8"
    ELSE IF InputEncodingCode = 1
         THEN (IF InputBom = <<255, 254>> THEN "utf-16-le" ELSE "utf-16-be")
    ELSE (IF InputBom = <<255, 254>> THEN "utf-32-le" ELSE "utf-32-be")

\* behind the 32 bytes of the header the input holds the blocks as to_bytes wrote
\* them
BlocksAsWritten ==
    /\ IsOk(m_bytes)
    /\ Slice(m_input.bytes, 32, Len(m_input.bytes)) = Slice(m_bytes.value, 32, Len(m_bytes.value))

\* C9: parsing the header fails when the byte-order mark is neither FF FE nor FE FF,
\* when the version is not 3, or when the encoding code is not 0, 1 or 2, and then
\* from_bytes returns no file object; for every other header it succeeds, with the
\* encoding utf-8 for code 0, utf-16 of the mark's endianness for code 1 and utf-32
\* of the mark's endianness for code 2.  The success is that of _read_header on a
\* file whose blocks are the written ones.
C9_HeaderChecks ==
    m_input /= None =>
        IF BadHeader
        THEN /\ IsRaised(m_header)
             /\ ~IsOk(m_parsed)
        ELSE BlocksAsWritten
             => /\ IsOk(m_header)
                /\ m_header.value.encoding = DerivedEncoding
                /\ m_header.value.byte_order.bom = InputBom

\* a big-endian file with blocks whose byte-order mark was replaced by 00 00: the
\* header is refused and from_bytes gives no file object
C9_Witness ==
    /\ m_input /= None
    /\ InputBom = <<0, 0>>
    /\ InputVersion = 3
    /\ InputEncodingCode \in {0, 1, 2}
    /\ m_file.byte_order = BIG_ENDIAN
    /\ Len(m_file.blocks) > 0
    /\ m_header = Raised("ValueError")
    /\ m_parsed = Raised("ValueError")

\* the bytes handed to from_bytes hold a block whose tag is not in the tag table of
\* the class
HasStrayBlock ==
    /\ m_input /= None
    /\ IsOk(m_header)
    /\ \E i \in 1..Len(m_header.value.raw_blocks) :
          m_header.value.raw_blocks[i][1] \notin DictKeys(Sections(m_file.cls))

\* the place of the first such block in the file
FirstStray ==
    CHOOSE i \in 1..Len(m_header.value.raw_blocks) :
        /\ m_header.value.raw_blocks[i][1] \notin DictKeys(Sections(m_file.cls))
        /\ \A j \in 1..(i - 1) :
              m_header.value.raw_blocks[j][1] \in DictKeys(Sections(m_file.cls))

\* what the class of the j-th block of the file makes of its body
BlockOutcome(j) ==
    BlockFromBytes(DictGet(Sections(m_file.cls), m_header.value.raw_blocks[j][1]),
                   m_header.value.raw_blocks[j][2], m_header.value)

RaisedMsg(e, msg) == [raised |-> e, message |-> msg]

\* list[i] in Python: a negative index counts from the end
PyIndex(list, i) ==
    IF 0 <= i /\ i < Len(list) THEN Ok(list[i + 1])
    ELSE IF i < 0 /\ -i <= Len(list) THEN Ok(list[Len(list) + i + 1])
    ELSE Raised("IndexError")

\* str(n) of a natural number
RECURSIVE Str(_)
Str(n) == IF n < 10 THEN <<48 + n>> ELSE Str(n \div 10) \o <<48 + (n % 10)>>

\* s.endswith(suffix)
EndsWith(s, suffix) ==
    /\ Len(s) >= Len(suffix)
    /\ SubSeq(s, Len(s) - Len(suffix) + 1, Len(s)) = suffix

\* the properties tgg2, tag2, tgp2, lbl1, txt2 of a file object: self.blocks[tag]
BlockOf(file, tag) ==
    IF tag \in DictKeys(file.blocks) THEN Ok(DictGet(file.blocks, tag))
    ELSE Raised("KeyError")

TagParameter(name, param_type, items) == [name |-> name, type |-> param_type, items |-> items]

Tag(name, parameters) == [name |-> name, parameters |-> parameters]

TagGroup(name, tags) == [name |-> name, tags |-> tags]

\* OMSProject()
OMSProject ==
    [tag_parameters |-> <<>>, tags |-> <<>>, tag_groups |-> <<>>, messages |-> <<>>]

\* [table[x] for x in indexes]
Pick(table, indexes) == Collect([x \in 1..Len(indexes) |-> PyIndex(table, indexes[x])])

\* OMSProject._import_msbp: the project afterwards and the outcome of the call; an
\* attribute assigned before an exception keeps its new value
ImportMsbp(project, msbp) ==
    LET tgp2 == BlockOf(msbp, TAG_TGP2)
    IN IF ~IsOk(tgp2) THEN [project |-> project, result |-> tgp2]
       ELSE
       LET params == [i \in 1..Len(tgp2.value.parameters) |->
                         TagParameter(tgp2.value.parameters[i][1], tgp2.value.parameters[i][2],
                                      tgp2.value.parameters[i][3])]
           p1 == [project EXCEPT !.tag_parameters = params]
           tag2 == BlockOf(msbp, TAG_TAG2)
       IN IF ~IsOk(tag2) THEN [project |-> p1, result |-> tag2]
          ELSE
          LET tags == Collect([i \in 1..Len(tag2.value.tags) |->
                          LET picked == Pick(params, tag2.value.tags[i][2])
                          IN IF ~IsOk(picked) THEN picked
                             ELSE Ok(Tag(tag2.value.tags[i][1], picked.value))])
          IN IF ~IsOk(tags) THEN [project |-> p1, result |-> tags]
             ELSE
             LET p2 == [p1 EXCEPT !.tags = tags.value]
                 tgg2 == BlockOf(msbp, TAG_TGG2)
             IN IF ~IsOk(tgg2) THEN [project |-> p2, result |-> tgg2]
                ELSE
                LET groups == Collect([i \in 1..Len(tgg2.value.groups) |->
                                  LET picked == Pick(tags.value, tgg2.value.groups[i][2])
                                  IN IF ~IsOk(picked) THEN picked
                                     ELSE Ok(TagGroup(tgg2.value.groups[i][1], picked.value))])
                IN IF ~IsOk(groups) THEN [project |-> p2, result |-> groups]
                   ELSE [project |-> [p2 EXCEPT !.tag_groups = groups.value],
                         result |-> Ok(None)]

\* the string literal the loop of import_binary_text compares each character with:
\* the three characters U+00EF U+00BF U+00BC
OMS_PLACEHOLDER == <<239, 191, 188>>

\* one turn of the for loop of import_binary_text, for the character c, on
\* st = [text, output_index, output_tags, tags]
ImportChar(project, st, c) ==
    IF ~IsOk(st) THEN st
    ELSE IF <<c>> = OMS_PLACEHOLDER
    THEN IF st.value.tags = <<>> THEN Raised("IndexError")
         ELSE LET rec == Head(st.value.tags)
                  group == PyIndex(project.tag_groups, rec[1])
              IN IF ~IsOk(group) THEN group
                 ELSE LET tag == PyIndex(group.value.tags, rec[2])
                      IN IF ~IsOk(tag) THEN tag
                         ELSE Ok([text |-> st.value.text \o <<123>>
                                              \o Str(st.value.output_index) \o <<125>>,
                                  output_index |-> st.value.output_index + 1,
                                  output_tags |-> Append(st.value.output_tags,
                                                         <<group.value, tag.value, rec[3]>>),
                                  tags |-> Tail(st.value.tags)])
    ELSE Ok([st.value EXCEPT !.text = Append(@, c)])

RECURSIVE ImportChars(_, _, _, _)
ImportChars(project, st, message, i) ==
    IF i > Len(message) THEN st
    ELSE ImportChars(project, ImportChar(project, st, message[i]), message, i + 1)

\* OMSText.import_binary_text on the dict self.messages: the dict afterwards, or the
\* exception
ImportBinaryText(messages, project, label, message, tags) ==
    LET st == ImportChars(project,
                          Ok([text |-> <<>>, output_index |-> 0, output_tags |-> <<>>,
                              tags |-> tags]),
                          message, 1)
    IN IF ~IsOk(st) THEN st
       ELSE Ok(DictPut(messages, label, <<st.value.text, st.value.output_tags>>))

\* {v: k for k, v in labels.items()}
RECURSIVE Inverse(_, _)
Inverse(labels, i) ==
    IF i = 0 THEN <<>>
    ELSE DictPut(Inverse(labels, i - 1), labels[i][2], labels[i][1])

\* the loop of _import_msbt over txt2.messages, from message number i (0-based), on
\* the dict of the OMSText being filled
RECURSIVE ImportMessages(_, _, _, _, _)
ImportMessages(txt, project, id_to_label, messages, i) ==
    IF ~IsOk(txt) \/ i >= Len(messages) THEN txt
    ELSE IF i \notin DictKeys(id_to_label) THEN Raised("KeyError")
    ELSE ImportMessages(ImportBinaryText(txt.value, project, DictGet(id_to_label, i),
                                         messages[i + 1][1], messages[i + 1][2]),
                        project, id_to_label, messages, i + 1)

\* OMSProject._import_msbt: the project afterwards and the outcome of the call
ImportMsbt(project, path, msbt) ==
    LET lbl1 == BlockOf(msbt, TAG_LBL1)
    IN IF ~IsOk(lbl1) THEN [project |-> project, result |-> lbl1]
       ELSE LET txt2 == BlockOf(msbt, TAG_TXT2)
            IN IF ~IsOk(txt2) THEN [project |-> project, result |-> txt2]
               ELSE LET txt == ImportMessages(Ok(<<>>), project,
                                              Inverse(lbl1.value.labels, Len(lbl1.value.labels)),
                                              txt2.value.messages, 0)
                    IN IF ~IsOk(txt) THEN [project |-> project, result |-> txt]
                       ELSE [project |-> [project EXCEPT
                                            !.messages = DictPut(@, path, txt.value)],
                             result |-> Ok(None)]

\* the attributes of class Darc of lib/darc.py, the class oms.py and main.py import
OLD_DARC_ATTRS ==
    {"DARC_HEADER_MAGIC", "DARC_HEADER_STRUCT", "DARC_SUPPORTED_VERSION", "__init__",
     "_build_index", "close", "save", "getalignment", "addentry", "adddir", "addfile",
     "add_file", "from_dir", "load", "extract", "list", "total_entries", "flat_entries"}

\* the lookup of attribute name on a class or object with attributes attrs
GetAttr(attrs, name) == IF name \in attrs THEN Ok(name) ELSE Raised("AttributeError")

\* nlzss11 (a collaborator): a stored stream is the byte 0x11, the length of the data
\* in three bytes, and the data in groups of eight literals behind a zero flag byte
RECURSIVE Lz11Groups(_)
Lz11Groups(data) ==
    IF data = <<>> THEN <<>>
    ELSE <<0>> \o SubSeq(data, 1, Min(8, Len(data)))
         \o Lz11Groups(SubSeq(data, Min(8, Len(data)) + 1, Len(data)))

\* nlzss11.compress(data, level), as a stored stream
Lz11Compress(data) == <<17>> \o LeBytes(Len(data), 3) \o Lz11Groups(data)

RECURSIVE Lz11Literals(_, _, _)
Lz11Literals(data, pos, left) ==
    IF left = 0 THEN <<>>
    ELSE Read(data, pos + 1, Min(8, left))
         \o Lz11Literals(data, pos + 1 + Min(8, left), left - Min(8, left))

\* nlzss11.decompress(data) of a stored stream
Lz11Decompress(data) == Lz11Literals(data, 4, LeValue(Slice(data, 1, 4)))

\* OMSProject.import_binary_project: the project afterwards and the outcome of the
\* call.  Lines 91..109 run after Darc.from_bytes returns.
ImportBinaryProject(project, data) ==
    LET first == FileTypeGuess(data)
        plain == IF first = "LZ11_FILE" THEN Lz11Decompress(data) ELSE data
        file_type == IF first = "LZ11_FILE" THEN FileTypeGuess(plain) ELSE first
    IN IF first = "raise IndexError" \/ file_type = "raise IndexError"
       THEN [project |-> project, result |-> Raised("IndexError")]
       ELSE IF file_type = "DARC_FILE"
       THEN [project |-> project, result |-> GetAttr(OLD_DARC_ATTRS, "from_bytes")]
       ELSE [project |-> project,
             result |-> RaisedMsg("TypeError", "Invalid binary project format")]

\* main.py, decompile_main: the in_file holds in_data; what the call returns or
\* raises, and what it writes to out_file
DecompileMain(in_data) ==
    LET imported == ImportBinaryProject(OMSProject, in_data)
    IN [project |-> imported.project,
        result |-> IF IsOk(imported.result)
                   THEN Ok([returned |-> 1, written |-> None])
                   ELSE imported.result]

\* main.py, recompile_main: the in_file holds the document with this root element;
\* what the call returns or raises, and what it writes to out_file.  xml_to_darc
\* returns a Darc of lib/darc.py for every DarcContainer; to_bytes is looked up on it.
RecompileMain(doc) ==
    LET is_compressed == doc.tag = "LZ11"
    IN IF is_compressed /\ doc.children = <<>> THEN Raised("IndexError")
       ELSE LET root == IF is_compressed THEN doc.children[1] ELSE doc
                to_bytes == GetAttr(OLD_DARC_ATTRS, "to_bytes")
            IN IF root.tag = "DarcContainer" THEN to_bytes
               ELSE Ok([returned |-> 0,
                        written |-> [bytes |-> IF is_compressed THEN Lz11Compress(<<>>)
                                               ELSE <<>>]])

(***************************************************************************)
(* The bundle machine: a client makes an OMSProject and calls its import   *)
(* methods, or runs the decompile and recompile commands of main.py.       *)
(***************************************************************************)
MaxCalls == 3

NAME_SYSTEM == <<115, 121, 115, 116, 101, 109>>   \* "system"

NAME_RUBY == <<82, 117, 98, 121>>                 \* "Ruby"

NAME_SIZE == <<83, 105, 122, 101>>                \* "Size"

NAME_TEXT == <<116, 101, 120, 116>>               \* "text"

NAME_PT == <<112, 116>>                           \* "pt"

SUFFIX_MSBP == <<46, 109, 115, 98, 112>>          \* ".msbp"

SUFFIX_MSBT == <<46, 109, 115, 98, 116>>          \* ".msbt"

\* an LMSProjectFile as from_bytes returns it, with the blocks TGG2, TAG2, TGP2
ProjectFile(groups, tags, parameters) ==
    [LMSFile("LMSProjectFile") EXCEPT
        !.magic = MAGIC_PRJ,
        !.blocks = <<<<TAG_TGG2, [groups |-> groups, byte_order |-> LITTLE_ENDIAN,
                                  encoding |-> "utf-8"]>>,
                     <<TAG_TAG2, [tags |-> tags, byte_order |-> LITTLE_ENDIAN,
                                  encoding |-> "utf-8"]>>,
                     <<TAG_TGP2, [parameters |-> parameters, byte_order |-> LITTLE_ENDIAN,
                                  encoding |-> "utf-8"]>>>>]

\* one group "system" with the tags Ruby and Size, of one parameter each
PROJECT_SYSTEM ==
    ProjectFile(<<<<NAME_SYSTEM, <<0, 1>>>>>>,
                <<<<NAME_RUBY, <<0>>>>, <<NAME_SIZE, <<1>>>>>>,
                <<<<NAME_TEXT, 0, <<>>>>, <<NAME_PT, 0, <<>>>>>>)

\* two groups; the tag Size takes both parameters, in the order pt, text
PROJECT_TWO_GROUPS ==
    ProjectFile(<<<<NAME_SYSTEM, <<1>>>>, <<NAME_A, <<0, 1>>>>>>,
                <<<<NAME_RUBY, <<>>>>, <<NAME_SIZE, <<1, 0>>>>>>,
                <<<<NAME_TEXT, 0, <<>>>>, <<NAME_PT, ENUM_TYPE, <<0, 1>>>>>>)

\* a tag that names a parameter the file does not have
PROJECT_BAD_PARAM ==
    ProjectFile(<<<<NAME_SYSTEM, <<0>>>>>>,
                <<<<NAME_RUBY, <<5>>>>>>,
                <<<<NAME_TEXT, 0, <<>>>>>>)

\* a Project file without the block TGG2
PROJECT_NO_GROUPS ==
    [PROJECT_SYSTEM EXCEPT !.blocks = Tail(@)]

ProjectPool == {PROJECT_SYSTEM, PROJECT_TWO_GROUPS, PROJECT_BAD_PARAM, PROJECT_NO_GROUPS}

\* an LMSStandardFile as from_bytes returns it, with the blocks LBL1 and TXT2
StandardFile(labels, messages) ==
    [LMSFile("LMSStandardFile") EXCEPT
        !.magic = MAGIC_STD,
        !.blocks = <<<<TAG_LBL1, [num_slots |-> 1, labels |-> labels,
                                  byte_order |-> LITTLE_ENDIAN]>>,
                     <<TAG_TXT2, [messages |-> messages, byte_order |-> LITTLE_ENDIAN,
                                  encoding |-> "utf-8"]>>>>]

\* messages as TXT2Block.from_bytes returns them: the text with one U+FFFC for each
\* control record, and the records (group, type, parameter bytes)
MSG_PLAIN == <<<<72, 105>>, <<>>>>

MSG_RUBY == <<<<72, PLACEHOLDER, 105>>, <<<<0, 0, <<1>>>>>>>>

MSG_TWO == <<<<PLACEHOLDER, 32, PLACEHOLDER>>, <<<<0, 1, <<>>>>, <<0, 0, <<2>>>>>>>>

MSG_BAD_GROUP == <<<<PLACEHOLDER>>, <<<<5, 0, <<1>>>>>>>>

MSG_BAD_TAG == <<<<PLACEHOLDER, 33>>, <<<<0, 7, <<1>>>>>>>>

StandardPool ==
    {StandardFile(<<<<LABEL_A, 0>>>>, <<MSG_PLAIN>>),
     StandardFile(<<<<LABEL_A, 0>>>>, <<MSG_RUBY>>),
     StandardFile(<<<<LABEL_A, 0>>, <<LABEL_BYE, 1>>>>, <<MSG_TWO, MSG_PLAIN>>),
     StandardFile(<<<<LABEL_A, 1>>, <<LABEL_BYE, 0>>>>, <<MSG_BAD_GROUP, MSG_RUBY>>),
     StandardFile(<<<<LABEL_A, 0>>, <<LABEL_BYE, 1>>>>, <<MSG_RUBY, MSG_BAD_TAG>>),
     StandardFile(<<>>, <<MSG_PLAIN>>)}

PathPool == {NAME_A \o SUFFIX_MSBT, NAME_B \o SUFFIX_MSBT}

\* the bytes of a little-endian archive whose root directory holds files of these
\* names, each with the payload 01
ArchiveOf(names) ==
    LET h == [i \in 1..(Len(names) + 1) |->
                 IF i = 1
                 THEN [DarcEntry(<<>>, TRUE) EXCEPT
                          !.children = [k \in 1..Len(names) |-> k + 1]]
                 ELSE [DarcEntry(names[i - 1], FALSE) EXCEPT
                          !.data = [bytes |-> <<1>>], !.parent = 1]]
    IN DarcToBytes(h, [byte_order |-> DARC_LITTLE_ENDIAN, root_entry |-> 1]).value

\* the blobs handed to import_binary_project and decompile_main: archives with no,
\* one and two .msbp files, plain and compressed, a Standard file's magic, a
\* compressed empty string and the empty string
BlobPool ==
    {ArchiveOf(<<NAME_A \o SUFFIX_MSBT>>),
     ArchiveOf(<<NAME_A \o SUFFIX_MSBP>>),
     ArchiveOf(<<NAME_A \o SUFFIX_MSBP, NAME_A \o SUFFIX_MSBT>>),
     ArchiveOf(<<NAME_A \o SUFFIX_MSBP, NAME_B \o SUFFIX_MSBP>>),
     Lz11Compress(ArchiveOf(<<NAME_A \o SUFFIX_MSBP>>)),
     Lz11Compress(ArchiveOf(<<NAME_A \o SUFFIX_MSBT>>)),
     MAGIC_STD,
     Lz11Compress(<<>>),
     <<>>}

\* the documents handed to recompile_main: an element is [tag, children]
Element(tag, children) == [tag |-> tag, children |-> children]

DocPool ==
    {Element("DarcContainer", <<>>),
     Element("LZ11", <<Element("DarcContainer", <<>>)>>),
     Element("MessagesContainer", <<>>),
     Element("LZ11", <<Element("MessagesContainer", <<>>)>>),
     Element("LZ11", <<>>)}

OmsInit ==
    /\ o_project = OMSProject
    /\ o_call = None
    /\ o_result = None
    /\ o_calls = 0
    /\ GuessIdle
    /\ HashIdle
    /\ DarcIdle
    /\ LmsIdle
    /\ TxtIdle
    /\ TreeIdle

\* o_project._import_msbp(msbp)
OmsImportMsbp(msbp) ==
    /\ o_calls < MaxCalls
    /\ \E done \in {ImportMsbp(o_project, msbp)} :
          /\ o_project' = done.project
          /\ o_result' = done.result
    /\ o_call' = [op |-> "_import_msbp", msbp |-> msbp]
    /\ o_calls' = o_calls + 1
    /\ UNCHANGED <<guessVars, hashVars, darcVars, lmsVars, txtVars, treeVars>>

\* o_project._import_msbt(path, msbt)
OmsImportMsbt(path, msbt) ==
    /\ o_calls < MaxCalls
    /\ \E done \in {ImportMsbt(o_project, path, msbt)} :
          /\ o_project' = done.project
          /\ o_result' = done.result
    /\ o_call' = [op |-> "_import_msbt", path |-> path, msbt |-> msbt,
                  project |-> o_project]
    /\ o_calls' = o_calls + 1
    /\ UNCHANGED <<guessVars, hashVars, darcVars, lmsVars, txtVars, treeVars>>

\* o_project.import_binary_project(data)
OmsImportBinaryProject(data) ==
    /\ o_calls < MaxCalls
    /\ \E done \in {ImportBinaryProject(o_project, data)} :
          /\ o_project' = done.project
          /\ o_result' = done.result
    /\ o_call' = [op |-> "import_binary_project", data |-> data]
    /\ o_calls' = o_calls + 1
    /\ UNCHANGED <<guessVars, hashVars, darcVars, lmsVars, txtVars, treeVars>>

\* decompile_main on a file that holds data: oms = OMSProject() takes the import
OmsDecompileMain(data) ==
    /\ o_calls < MaxCalls
    /\ \E done \in {DecompileMain(data)} :
          /\ o_project' = done.project
          /\ o_result' = done.result
    /\ o_call' = [op |-> "decompile_main", data |-> data]
    /\ o_calls' = o_calls + 1
    /\ UNCHANGED <<guessVars, hashVars, darcVars, lmsVars, txtVars, treeVars>>

\* recompile_main on a file that holds the document doc
OmsRecompileMain(doc) ==
    /\ o_calls < MaxCalls
    /\ o_result' = RecompileMain(doc)
    /\ o_call' = [op |-> "recompile_main", doc |-> doc]
    /\ o_calls' = o_calls + 1
    /\ UNCHANGED <<o_project, guessVars, hashVars, darcVars, lmsVars, txtVars, treeVars>>

OmsNext ==
    \/ \E msbp \in ProjectPool : OmsImportMsbp(msbp)
    \/ \E path \in PathPool, msbt \in StandardPool : OmsImportMsbt(path, msbt)
    \/ \E data \in BlobPool : OmsImportBinaryProject(data)
    \/ \E data \in BlobPool : OmsDecompileMain(data)
    \/ \E doc \in DocPool : OmsRecompileMain(doc)

SpecOms == OmsInit /\ [][OmsNext]_vars

(***************************************************************************)
(* Properties of the bundle machine                                        *)
(***************************************************************************)
\* what import_binary_project takes for the archive: the blob, or the data of the
\* compressed stream
PlainOf(data) == IF FileTypeGuess(data) = "LZ11_FILE" THEN Lz11Decompress(data) ELSE data

IsArchiveBlob(data) == data /= <<>> /\ FileTypeGuess(PlainOf(data)) = "DARC_FILE"

\* the number of file entries of the archive whose path ends in .msbp
ProjectEntries(data) ==
    LET heap == DarcFromBytes(data).value.heap
    IN Cardinality({e \in 1..Len(heap) :
                       ~heap[e].is_dir /\ EndsWith(Filename(heap, e), SUFFIX_MSBP)})

MISSING_PROJECT ==
    RaisedMsg("TypeError", "Darc project container not of expected format (missing msbp file)")

\* C11: import_binary_project of an archive returns only when the archive holds
\* exactly one file entry whose path ends in .msbp; with none and with two or more
\* it raises the missing-project error.
C11_ExactlyOneProject ==
    (o_call /= None /\ o_call.op = "import_binary_project" /\ IsArchiveBlob(o_call.data))
    => /\ IsOk(o_result) => ProjectEntries(PlainOf(o_call.data)) = 1
       /\ ProjectEntries(PlainOf(o_call.data)) /= 1 => o_result = MISSING_PROJECT

\* the control records of a message that name a group of the project and a tag of
\* that group
RefInRange(project, rec) ==
    /\ rec[1] \in 0..(Len(project.tag_groups) - 1)
    /\ rec[2] \in 0..(Len(project.tag_groups[rec[1] + 1].tags) - 1)

\* the triple (group descriptor, tag descriptor, bytes) of a control record
Resolved(project, rec) ==
    <<project.tag_groups[rec[1] + 1], project.tag_groups[rec[1] + 1].tags[rec[2] + 1], rec[3]>>

MessagesOf(msbt) == DictGet(msbt.blocks, TAG_TXT2).messages

LabelsOf(msbt) == DictGet(msbt.blocks, TAG_LBL1).labels

\* every message of the file has a label
Labelled(msbt) ==
    \A i \in 1..Len(MessagesOf(msbt)) : \E k \in 1..Len(LabelsOf(msbt)) : LabelsOf(msbt)[k][2] = i - 1

\* what the bundle holds for message i (1-based) of the file imported last
Imported(i) ==
    DictGet(DictGet(o_project.messages, o_call.path),
            DictGet(Inverse(LabelsOf(o_call.msbt), Len(LabelsOf(o_call.msbt))), i - 1))

\* C12: after _import_msbp the parameters of each tag are the TGP2 entries its TAG2
\* index list names, in order; after _import_msbt of a file whose control records
\* are all in range, the tag list of each message holds, for each record (g, t, bytes)
\* in order, the triple (group g, tag t of group g, bytes).
C12_TagsResolved ==
    /\ (o_call /= None /\ o_call.op = "_import_msbp" /\ IsOk(o_result))
       => LET tag2 == DictGet(o_call.msbp.blocks, TAG_TAG2).tags
              tgp2 == DictGet(o_call.msbp.blocks, TAG_TGP2).parameters
          IN /\ Len(o_project.tags) = Len(tag2)
             /\ \A i \in 1..Len(tag2) :
                   /\ o_project.tags[i].name = tag2[i][1]
                   /\ o_project.tags[i].parameters =
                         [x \in 1..Len(tag2[i][2]) |->
                             TagParameter(tgp2[tag2[i][2][x] + 1][1], tgp2[tag2[i][2][x] + 1][2],
                                          tgp2[tag2[i][2][x] + 1][3])]
    /\ (/\ o_call /= None /\ o_call.op = "_import_msbt" /\ IsOk(o_result)
        /\ \A i \in 1..Len(MessagesOf(o_call.msbt)) :
              \A k \in 1..Len(MessagesOf(o_call.msbt)[i][2]) :
                 RefInRange(o_project, MessagesOf(o_call.msbt)[i][2][k]))
       => \A i \in 1..Len(MessagesOf(o_call.msbt)) :
             Imported(i)[2] = [k \in 1..Len(MessagesOf(o_call.msbt)[i][2]) |->
                                  Resolved(o_project, MessagesOf(o_call.msbt)[i][2][k])]

\* C13: _import_msbt of a labelled file with a control record whose group or tag
\* index is out of range returns, every message of the file is in the bundle, and
\* the tag list of a message holds each out-of-range record with its raw indices.
C13_BadRefKept ==
    (/\ o_call /= None /\ o_call.op = "_import_msbt" /\ Labelled(o_call.msbt)
     /\ \E i \in 1..Len(MessagesOf(o_call.msbt)) :
           \E k \in 1..Len(MessagesOf(o_call.msbt)[i][2]) :
              ~RefInRange(o_call.project, MessagesOf(o_call.msbt)[i][2][k]))
    => /\ IsOk(o_result)
       /\ \A i \in 1..Len(MessagesOf(o_call.msbt)) :
             LET records == MessagesOf(o_call.msbt)[i][2]
             IN /\ Len(Imported(i)[2]) = Len(records)
                /\ \A k \in 1..Len(records) :
                      ~RefInRange(o_project, records[k]) => Imported(i)[2][k] = records[k]

\* C17: decompile_main of an archive blob returns and leaves a document that says
\* whether the blob was compressed: its root element is LZ11 exactly when the first
\* byte of the blob is 0x11; recompile_main writes through the compressor exactly
\* when the root element of its document is LZ11.
C17_FlagThreads ==
    /\ (o_call /= None /\ o_call.op = "decompile_main" /\ IsArchiveBlob(o_call.data))
       => /\ IsOk(o_result)
          /\ o_result.value.written /= None
          /\ (o_result.value.written.doc.tag = "LZ11") <=> (o_call.data[1] = 17)
    /\ (o_call /= None /\ o_call.op = "recompile_main" /\ IsOk(o_result))
       => (FileTypeGuess(o_result.value.written.bytes) = "LZ11_FILE")
          <=> (o_call.doc.tag = "LZ11")

(***************************************************************************)
(* Properties: archive trees and file tables                               *)
(***************************************************************************)
\* the entry has the empty name, is a directory and has no parent
IsRoot(h, e) == h[e].name = <<>> /\ h[e].is_dir /\ h[e].parent = 0

\* C14: the root entry of the archive a client builds from Darc() with add_child
\* and remove_child, and of every archive from_bytes returns, has the empty name,
\* is a directory and has no parent.
C14_RootInvariant ==
    /\ IsRoot(d_heap, d_arc.root_entry)
    /\ IsOk(d_parsed) => IsRoot(d_parsed.value.heap, d_parsed.value.arc.root_entry)

\* record k (0-based) of the file table of an archive's bytes
TableRow(data, order, k) ==
    [name   |-> Unpack(order, Slice(data, HEADER_LEN + ENTRY_LEN * k,
                                    HEADER_LEN + ENTRY_LEN * k + 4)),
     second |-> Unpack(order, Slice(data, HEADER_LEN + ENTRY_LEN * k + 4,
                                    HEADER_LEN + ENTRY_LEN * k + 8)),
     third  |-> Unpack(order, Slice(data, HEADER_LEN + ENTRY_LEN * k + 8,
                                    HEADER_LEN + ENTRY_LEN * k + 12))]

IsDirRow(row) == row.name >= DIR_FLAG

\* the position of entry e in the sequence flat (0-based)
IndexIn(flat, e) == (CHOOSE i \in 1..Len(flat) : flat[i] = e) - 1

\* C15: in the table to_bytes wrote, record 0 is a directory record whose third
\* field is the number of entries; for every directory record at index i,
\* third - i - 1 is the number of descendants of the directory and the second
\* field is the index of the record of its parent (0 for the root).
C15_TableShape ==
    IsOk(d_bytes)
    => LET flat == FlatTree(d_heap, d_arc.root_entry)
           Row(k) == TableRow(d_bytes.value, d_arc.byte_order, k)
       IN /\ IsDirRow(Row(0))
          /\ Row(0).third = Len(flat)
          /\ \A i \in 0..(Len(flat) - 1) :
                IsDirRow(Row(i))
                => /\ Row(i).third - i - 1 = Len(FlatTree(d_heap, flat[i + 1])) - 1
                   /\ Row(i).second = IF d_heap[flat[i + 1]].parent = 0 THEN 0
                                      ELSE IndexIn(flat, d_heap[flat[i + 1]].parent)

\* C19: for every entry of the tree, length is the number of entries of its subtree,
\* itself included, for a directory, and the size of the payload for a file (0
\* without payload).
C19_LengthIsSubtreeSize ==
    \A e \in Range(FlatTree(d_heap, d_arc.root_entry)) :
       EntryLength(d_heap, e) = IF d_heap[e].is_dir THEN Len(FlatTree(d_heap, e))
                                ELSE Len(EntryData(d_heap, e))

\* the table index of the innermost directory record d with d < k < end-index of d
Innermost(data, order, k) ==
    CHOOSE d \in 0..(k - 1) :
       /\ IsDirRow(TableRow(data, order, d)) /\ k < TableRow(data, order, d).third
       /\ \A c \in (d + 1)..(k - 1) :
             ~(IsDirRow(TableRow(data, order, c)) /\ k < TableRow(data, order, c).third)

\* from_bytes was handed the bytes to_bytes() wrote for a tree under a directory
ParsedWrittenTree ==
    /\ d_parsed /= None
    /\ d_input = [bytes |-> d_bytes.value]
    /\ d_heap[d_arc.root_entry].is_dir

\* C20: from_bytes of a table to_bytes wrote returns a tree where the entry of table
\* index k is a child of the innermost directory d with d < k < end-index of d, and
\* the children of every directory are in table order.
C20_InnermostParent ==
    ParsedWrittenTree
    => /\ IsOk(d_parsed)
       /\ LET heap == d_parsed.value.heap
          IN /\ \A k \in 1..(Len(heap) - 1) :
                   heap[k + 1].parent = Innermost(d_input.bytes, d_arc.byte_order, k) + 1
             /\ \A e \in 1..Len(heap) :
                   \A a, b \in 1..Len(heap[e].children) :
                      a < b => heap[e].children[a] < heap[e].children[b]

\* a little-endian archive of the root directory and the single file a.msbt
SingleFileArchive ==
    /\ d_arc.byte_order = DARC_LITTLE_ENDIAN
    /\ d_heap[d_arc.root_entry].is_dir
    /\ Len(d_heap[d_arc.root_entry].children) = 1
    /\ ~d_heap[d_heap[d_arc.root_entry].children[1]].is_dir
    /\ d_heap[d_heap[d_arc.root_entry].children[1]].name = NAME_A_MSBT

\* the bytes begin with 'darc', FF FE, 1C 00, 00 00 00 01; the second field of the
\* file's record is offset and the payload lies at that offset
SingleFileLayout(data, offset) ==
    LET payload == EntryData(d_heap, d_heap[d_arc.root_entry].children[1])
    IN /\ Slice(data, 0, 12) = <<100, 97, 114, 99, 255, 254, 28, 0, 0, 0, 0, 1>>
       /\ TableRow(data, d_arc.byte_order, 1).second = offset
       /\ Slice(data, offset, offset + Len(payload)) = payload

\* C16, as stated: to_bytes of a little-endian archive of the root and the single
\* file a.msbt begins with 'darc', FF FE, 1C 00, 00 00 00 01, and the payload
\* begins at offset 64, which the second field of the file's record holds.
C16_PayloadAt64 ==
    (SingleFileArchive /\ d_bytes /= None)
    => IsOk(d_bytes) /\ SingleFileLayout(d_bytes.value, 64)

\* C16, amended: the same, with the payload at offset 96: the header, the two
\* records and the names '' and 'a.msbt' take 28 + 24 + 16 = 68 bytes, and the next
\* multiple of 32 is 96.
C16_PayloadAt96 ==
    (SingleFileArchive /\ d_bytes /= None)
    => IsOk(d_bytes) /\ SingleFileLayout(d_bytes.value, 96)

C16_Witness ==
    /\ SingleFileArchive
    /\ IsOk(d_bytes)
    /\ EntryData(d_heap, d_heap[d_arc.root_entry].children[1]) = MAGIC_STD

(***************************************************************************)
(* Properties: the layout of written message files                         *)
(***************************************************************************)
\* the blocks of written bytes, from the block header at pos to the end of the data:
\* how many there are, or -1 when a body does not start at a multiple of 16, a byte
\* between the end of a body and the next multiple of 16 is not 0xAB, or the data
\* ends inside a block
RECURSIVE CountBlocks(_, _, _)
CountBlocks(data, order, pos) ==
    IF pos = Len(data) THEN 0
    ELSE IF pos + 16 > Len(data) THEN -1
    ELSE LET size == Unpack(order, Slice(data, pos + 4, pos + 8))
             body_end == pos + 16 + size
             next == body_end + ((16 - (body_end % 16)) % 16)
         IN IF (pos + 16) % 16 /= 0 \/ next > Len(data)
               \/ \E p \in body_end..(next - 1) : data[p + 1] /= 171
            THEN -1
            ELSE LET rest == CountBlocks(data, order, next)
                 IN IF rest < 0 THEN -1 ELSE rest + 1

\* the size of block number i (1-based) of written bytes, for i up to the number of
\* blocks
RECURSIVE BlockSizes(_, _, _)
BlockSizes(data, order, pos) ==
    IF pos + 16 > Len(data) THEN <<>>
    ELSE LET size == Unpack(order, Slice(data, pos + 4, pos + 8))
             body_end == pos + 16 + size
         IN <<size>> \o BlockSizes(data, order, body_end + ((16 - (body_end % 16)) % 16))

\* data is laid out as the bytes of file: aligned and padded blocks, as many as the
\* file has and as the count field at offset 14 says, and the length at offset 18
LaidOut(file, data) ==
    /\ CountBlocks(data, file.byte_order, 32) = Len(file.blocks)
    /\ Unpack(file.byte_order, Slice(data, 14, 16)) = Len(file.blocks)
    /\ Unpack(file.byte_order, Slice(data, 18, 22)) = Len(data)

RECURSIVE HeaderReads(_, _, _, _)
HeaderReads(data, order, st, num_blocks) ==
    IF Len(st.blocks) >= num_blocks THEN 0
    ELSE LET next == ReadBlock(data, order, st)
         IN IF IsRaised(next) THEN 1
            ELSE 1 + HeaderReads(data, order, next, num_blocks)

\* the input passes the checks _read_header makes before its loop
ReachesLoop(data) ==
    /\ Len(data) >= 32
    /\ IsOk(FromBom(Slice(data, 8, 10)))
    /\ data[14] = LMS_VERSION
    /\ data[13] \in {0, 1, 2}

\* the block count field of the header of the input
DeclaredCount(data) == Unpack(FromBom(Slice(data, 8, 10)).value, Slice(data, 14, 16))

\* C21: parsing a message file reads exactly block_count block headers and then
\* stops, also when two blocks of the file carry the same tag; no block header is
\* read beyond the declared count.
C21_ReadsDeclaredCount ==
    (m_input /= None /\ ReachesLoop(m_input.bytes))
        => HeaderReads(m_input.bytes, FromBom(Slice(m_input.bytes, 8, 10)).value,
                       [pos |-> 32, blocks |-> <<>>], DeclaredCount(m_input.bytes))
           = DeclaredCount(m_input.bytes)

\* the two inputs are the same but for the values of the bytes between the end of a
\* block body and the next multiple of 16
SameButPadding(a, b, order) ==
    /\ Len(a) = Len(b)
    /\ Repad(a, order, 32, <<0, 0>>) = Repad(b, order, 32, <<0, 0>>)

\* C25: two message files that differ only in the values of the padding bytes after
\* the block bodies parse to the same header values, the same block order and the
\* same block contents.
C25_PaddingIgnored ==
    (/\ m_input /= None
     /\ IsOk(m_bytes)
     /\ Len(m_file.magic) = 8
     /\ SameButPadding(m_input.bytes, m_bytes.value, m_file.byte_order))
        => /\ m_header = ReadHeader(m_bytes.value)
           /\ m_parsed = LMSFromBytes(m_file.cls, m_bytes.value)

\* a file of two blocks or more parsed from bytes whose padding is not the written
\* one
C25_Witness ==
    /\ m_input /= None
    /\ IsOk(m_bytes)
    /\ m_input.bytes /= m_bytes.value
    /\ SameButPadding(m_input.bytes, m_bytes.value, m_file.byte_order)
    /\ IsOk(m_parsed)
    /\ Len(m_parsed.value.blocks) >= 2

\* the file holds blocks, and TGL2 and CTI1 blocks only
NameBlocksOnly(file) ==
    /\ file.blocks /= <<>>
    /\ \A i \in 1..Len(file.blocks) : file.blocks[i][1] \in {TAG_TGL2, TAG_CTI1}

\* C27: TGL2 and CTI1 blocks come back from from_bytes(to_bytes(block)) with the
\* same names in the same order, under every encoding and either byte order: a
\* written name is encoded in the file's encoding and ended by that encoding's NUL.
C27_NamesRoundTrip ==
    (/\ m_input /= None
     /\ IsOk(m_bytes)
     /\ m_input.bytes = m_bytes.value
     /\ Len(m_file.magic) = 8
     /\ NameBlocksOnly(m_file))
        => /\ IsOk(m_parsed)
           /\ m_parsed.value.blocks = m_file.blocks

(***************************************************************************)
(* TXT2 bodies: a client puts the one message of a TXT2 body together,     *)
(* code unit by code unit and tag by tag, for a file of either byte order  *)
(* and any encoding, and hands the body to TXT2Block.from_bytes.  A body   *)
(* may lack the terminating NUL.                                           *)
(***************************************************************************)
MaxUnits == 3

\* the code points put into a message: "H", U+FFFC, U+E041 (high byte 0xE0),
\* U+41E0 (low byte 0xE0), the tag mark and NUL
UnitPool == {72, PLACEHOLDER, 57409, 16864, TAG_MARK, 0}

\* the tags put into a message: <<tag_group, tag_type, param_data>>
TagPool == {<<0, 1, <<>>>>, <<1, 0, <<1, 0>>>>}

\* the bytes of a tag in a message: the mark, three u16 and the parameter bytes
TagBytes(file, tag) ==
    Encode(file.encoding, <<TAG_MARK>>)
    \o Pack(file.byte_order, 2, tag[1]) \o Pack(file.byte_order, 2, tag[2])
    \o Pack(file.byte_order, 2, Len(tag[3])) \o tag[3]

\* the body of a TXT2 block with one message, which starts at offset 8
TxtBody(file, pieces) ==
    Pack(file.byte_order, 4, 1) \o Pack(file.byte_order, 4, 8)
    \o Concat([i \in 1..Len(pieces) |-> pieces[i].bytes])

TxtInit ==
    /\ t_file \in {[byte_order |-> order, encoding |-> encoding] :
                      order \in ByteOrders,
                      encoding \in {"utf-8", "utf-16-le", "utf-16-be",
                                    "utf-32-le", "utf-32-be"}}
    /\ t_file.encoding \in FileEncodings(t_file.byte_order)
    /\ t_data = <<>>
    /\ t_result = None
    /\ GuessIdle
    /\ HashIdle
    /\ DarcIdle
    /\ LmsIdle
    /\ OmsIdle
    /\ TreeIdle

\* one more code unit in the message
TxtPutUnit(c) ==
    /\ t_result = None
    /\ Len(t_data) < MaxUnits
    /\ t_data' = Append(t_data, [unit |-> c, bytes |-> Encode(t_file.encoding, <<c>>)])
    /\ UNCHANGED <<t_file, t_result, guessVars, hashVars, darcVars, lmsVars, omsVars, treeVars>>

\* one more tag in the message
TxtPutTag(tag) ==
    /\ t_result = None
    /\ Len(t_data) < MaxUnits
    /\ t_data' = Append(t_data, [tag |-> tag, bytes |-> TagBytes(t_file, tag)])
    /\ UNCHANGED <<t_file, t_result, guessVars, hashVars, darcVars, lmsVars, omsVars, treeVars>>

\* TXT2Block.from_bytes(body, file)
TxtParse ==
    /\ t_result = None
    /\ \E body \in {TxtBody(t_file, t_data)} : t_result' = TXT2FromBytes(body, t_file)
    /\ UNCHANGED <<t_file, t_data, guessVars, hashVars, darcVars, lmsVars, omsVars, treeVars>>

TxtNext ==
    \/ \E c \in UnitPool : TxtPutUnit(c)
    \/ \E tag \in TagPool : TxtPutTag(tag)
    \/ TxtParse

SpecTxt == TxtInit /\ [][TxtNext]_vars

\* how often x occurs in s
Count(s, x) == Cardinality({i \in 1..Len(s) : s[i] = x})

\* C22: in every parsed TXT2 message the number of U+FFFC placeholders of the
\* display text equals the number of records of the message's tag list (the k-th
\* placeholder standing for the k-th record).
C22_PlaceholderPerTag ==
    IsOk(t_result) =>
        \A i \in 1..Len(t_result.value.messages) :
            Count(t_result.value.messages[i][1], PLACEHOLDER)
            = Len(t_result.value.messages[i][2])

\* the message is code units only, none of them the tag mark, and ends with its
\* first NUL
PlainUnits ==
    /\ t_data /= <<>>
    /\ \A i \in 1..Len(t_data) :
          /\ "unit" \in DOMAIN t_data[i]
          /\ t_data[i].unit /= TAG_MARK
          /\ (t_data[i].unit = 0) = (i = Len(t_data))

\* what the claim makes of code unit c: <<character, records>>
ButtonRule(c) ==
    IF c % 256 = BUTTON_BYTE THEN <<PLACEHOLDER, <<<<-1, -1, <<c \div 256>>>>>>>>
    ELSE <<c, <<>>>>

\* C23: in a two-byte encoding a code unit that is neither NUL nor 0x000E gives the
\* synthetic record (-1, -1, b) exactly when its low byte is 0xE0, b being its
\* other byte; every other code unit is appended to the display text as its
\* character and gives no record.
C23_ButtonLowByte ==
    (t_result /= None /\ Width(t_file.encoding) = 2 /\ PlainUnits) =>
        /\ IsOk(t_result)
        /\ t_result.value.messages =
              << << [i \in 1..(Len(t_data) - 1) |-> ButtonRule(t_data[i].unit)[1]],
                    Concat([i \in 1..(Len(t_data) - 1) |-> ButtonRule(t_data[i].unit)[2]]) >> >>

\* C24: the parsers terminate on every input: a string without terminator before
\* the end of the buffer ends the parse with an error after finitely many reads.
C24_ParsersTerminate ==
    t_result /= Hangs

(***************************************************************************)
(* Properties: the payloads of an archive's bytes                          *)
(***************************************************************************)
\* the next multiple of 32 from n on
Aligned(n) == IF n % DATA_ALIGN > 0 THEN n + (DATA_ALIGN - (n % DATA_ALIGN)) ELSE n

\* where the payloads of the files of walk are written, the first from offset cur
\* on: a function from the files to their offsets
RECURSIVE WrittenAt(_, _, _)
WrittenAt(h, walk, cur) ==
    IF walk = <<>> THEN <<>>
    ELSE IF h[Head(walk)].is_dir THEN WrittenAt(h, Tail(walk), cur)
    ELSE <<<<Head(walk), Aligned(cur)>>>>
         \o WrittenAt(h, Tail(walk), Aligned(cur) + Len(EntryData(h, Head(walk))))

\* the file-data offset of the header of an archive's bytes
FileDataOffset(data, order) == Unpack(order, Slice(data, 24, 28))

\* the files of the tree under e, in table order
Files(h, e) == SelectSeq(FlatTree(h, e), LAMBDA x : ~h[x].is_dir)

\* C30: in the bytes to_bytes wrote, the table record of every file holds the
\* offset at which that file's own payload was written and that payload's length,
\* also when two entries of the tree have the same full path; no file record is
\* left with offset 0 or holds the offset of another entry's payload.
C30_OwnRecordPatched ==
    IsOk(d_bytes)
    => LET flat == FlatTree(d_heap, d_arc.root_entry)
           at == WrittenAt(d_heap, BreadthTree(d_heap, d_arc.root_entry),
                           FileDataOffset(d_bytes.value, d_arc.byte_order))
       IN \A w \in Range(at) :
             LET row == TableRow(d_bytes.value, d_arc.byte_order, IndexIn(flat, w[1]))
             IN /\ row.second = w[2]
                /\ row.second /= 0
                /\ row.third = Len(EntryData(d_heap, w[1]))

\* the offset the table record of file e gives for its payload
RecordOffset(e) ==
    TableRow(d_bytes.value, d_arc.byte_order,
             IndexIn(FlatTree(d_heap, d_arc.root_entry), e)).second

\* C26: to_bytes writes, for every directory, the payloads of the files inside its
\* sub-directories at lower offsets than the payloads of its own files, and its own
\* files one after the other in child order; every payload starts at a multiple of
\* 32 that is not below the file-data offset of the header, and the table record of
\* the file holds that offset and the payload length.
C26_PayloadOrder ==
    IsOk(d_bytes)
    => LET h == d_heap
           data == d_bytes.value
           tree == FlatTree(h, d_arc.root_entry)
       IN /\ \A e \in Range(Files(h, d_arc.root_entry)) :
                /\ RecordOffset(e) % DATA_ALIGN = 0
                /\ RecordOffset(e) >= FileDataOffset(data, d_arc.byte_order)
                /\ Slice(data, RecordOffset(e), RecordOffset(e) + Len(EntryData(h, e)))
                   = EntryData(h, e)
                /\ TableRow(data, d_arc.byte_order, IndexIn(tree, e)).third
                   = Len(EntryData(h, e))
          /\ \A d \in {x \in Range(tree) : h[x].is_dir} :
                \A i \in 1..Len(h[d].children), j \in 1..Len(h[d].children) :
                   LET c == h[d].children[i]
                       g == h[d].children[j]
                   IN ~h[g].is_dir
                      => /\ h[c].is_dir
                            => \A f \in Range(Files(h, c)) :
                                  RecordOffset(f) < RecordOffset(g)
                         /\ (~h[c].is_dir /\ i < j) => RecordOffset(c) < RecordOffset(g)

(***************************************************************************)
(* lib/new_darc.py: DarcEntry, the calls a client makes on entries         *)
(*                                                                         *)
(* A call gives [heap, result]: the entries after the call and None        *)
(* (returned) or the exception.                                            *)
(***************************************************************************)
\* self.add_child(child), for any two entries
AddChildCall(h, self, child) ==
    IF ~h[self].is_dir THEN [heap |-> h, result |-> Raised("TypeError")]
    ELSE [heap |-> AddChild(h, self, child), result |-> Ok(None)]

\* self.remove_child(child), for any two entries: child._parent is cleared before
\* list.remove raises ValueError for an entry that is not in the list
RemoveChildCall(h, self, child) ==
    IF ~h[self].is_dir THEN [heap |-> h, result |-> Raised("TypeError")]
    ELSE IF child \notin Range(h[self].children)
         THEN [heap |-> [h EXCEPT ![child].parent = 0], result |-> Raised("ValueError")]
    ELSE [heap |-> RemoveChild(h, self, child), result |-> Ok(None)]

\* self.data = data
SetDataCall(h, self, data) ==
    IF h[self].is_dir THEN [heap |-> h, result |-> Raised("TypeError")]
    ELSE [heap |-> [h EXCEPT ![self].data = [bytes |-> data]], result |-> Ok(None)]

(***************************************************************************)
(* Trees: a client makes entries and then calls add_child, remove_child    *)
(* and the data setter on any of them, attached or not.                    *)
(***************************************************************************)
MaxTreeEntries == 3

MaxTreeCalls == 3

\* DarcEntry(name, is_dir), before any call on an entry
TreeNew(name, is_dir) ==
    /\ d_bytes = None
    /\ d_calls = 0
    /\ Len(d_heap) < MaxTreeEntries
    /\ d_heap' = Append(d_heap, DarcEntry(name, is_dir))
    /\ UNCHANGED <<d_arc, d_bytes, d_input, d_parsed, d_bytes2, d_result, d_calls,
                   guessVars, hashVars, lmsVars, omsVars, txtVars>>

\* parent.add_child(child)
TreeAddChild(parent, child) ==
    /\ d_calls < MaxTreeCalls
    /\ parent \in 1..Len(d_heap)
    /\ child \in 1..Len(d_heap)
    /\ \E call \in {AddChildCall(d_heap, parent, child)} :
          /\ d_heap' = call.heap
          /\ d_result' = call.result
    /\ d_calls' = d_calls + 1
    /\ UNCHANGED <<d_arc, d_bytes, d_input, d_parsed, d_bytes2,
                   guessVars, hashVars, lmsVars, omsVars, txtVars>>

\* parent.remove_child(child)
TreeRemoveChild(parent, child) ==
    /\ d_calls < MaxTreeCalls
    /\ parent \in 1..Len(d_heap)
    /\ child \in 1..Len(d_heap)
    /\ \E call \in {RemoveChildCall(d_heap, parent, child)} :
          /\ d_heap' = call.heap
          /\ d_result' = call.result
    /\ d_calls' = d_calls + 1
    /\ UNCHANGED <<d_arc, d_bytes, d_input, d_parsed, d_bytes2,
                   guessVars, hashVars, lmsVars, omsVars, txtVars>>

\* entry.data = data
TreeSetData(entry, data) ==
    /\ d_calls < MaxTreeCalls
    /\ entry \in 1..Len(d_heap)
    /\ \E call \in {SetDataCall(d_heap, entry, data)} :
          /\ d_heap' = call.heap
          /\ d_result' = call.result
    /\ d_calls' = d_calls + 1
    /\ UNCHANGED <<d_arc, d_bytes, d_input, d_parsed, d_bytes2,
                   guessVars, hashVars, lmsVars, omsVars, txtVars>>

TreeNext ==
    \/ DarcSetRoot
    \/ \E is_dir \in BOOLEAN : TreeNew(NAME_A, is_dir)
    \/ \E parent \in 1..MaxTreeEntries, child \in 1..MaxTreeEntries :
          TreeAddChild(parent, child)
    \/ \E parent \in 1..MaxTreeEntries, child \in 1..MaxTreeEntries :
          TreeRemoveChild(parent, child)
    \/ \E entry \in 1..MaxTreeEntries : TreeSetData(entry, <<1>>)

SpecTree == DarcInit /\ [][TreeNext]_vars

\* following the parent links from e ends at an entry without parent within n steps
RECURSIVE EndsWithin(_, _, _)
EndsWithin(h, e, n) ==
    IF h[e].parent = 0 THEN TRUE
    ELSE IF n = 0 THEN FALSE
    ELSE EndsWithin(h, h[e].parent, n - 1)

\* C28: after any sequence of add_child and remove_child calls, an entry c has
\* parent d exactly when c occurs in d's children, c occurs in at most one children
\* list and at most once, only directories have children, and the parent links
\* from any entry end at an entry without parent.
C28_TreeConsistent ==
    LET h == d_heap
        E == 1..Len(h)
    IN /\ \A c \in E, d \in E : (h[c].parent = d) <=> (c \in Range(h[d].children))
       /\ \A c \in E :
             Cardinality({<<d, i>> \in E \X (1..(MaxTreeCalls + MaxTreeEntries)) :
                              i <= Len(h[d].children) /\ h[d].children[i] = c}) <= 1
       /\ \A e \in E : ~h[e].is_dir => h[e].children = <<>>
       /\ \A e \in E : EndsWithin(h, e, Len(h))

\* C29: a rejected call on an entry (remove_child of an entry the directory does
\* not hold, add_child on a file, the data setter on a directory) raises an error
\* and leaves every parent link, every children list and every payload as before.
C29_RejectedChangesNothing ==
    [][(d_calls' /= d_calls /\ IsRaised(d_result')) => d_heap' = d_heap]_vars

====
